---------------------------- MODULE Spec2Model ----------------------------
(***************************************************************************)
(* A model of pdfhunter's field extraction and resolution engine: the      *)
(* BibliographyRecord with its fixed-weight confidence, the ExpansionAgent *)
(* loop with its two actions, and Pipeline.run with the Merger and the     *)
(* web enrichment.  Collaborators (page rendering, OCR, the pattern        *)
(* matcher as called by the agent, the language model, the web search)     *)
(* answer nondeterministically: a value from a small set, or an exception. *)
(* The rule-based extractor, the ConfidenceScorer, the web enricher and the *)
(* Zotero synchronization are also modelled, each with a specification of  *)
(* its own.                                                                *)
(***************************************************************************)
EXTENDS Integers, Sequences, FiniteSets, TLC

VARIABLES
    record,                 \* the BibliographyRecord under construction
    document,               \* [is_pdf, document_type, page_count]
    max_iterations,         \* ExpansionAgent.max_iterations
    iteration,              \* ExpansionAgent.iteration
    tried_running_headers,  \* ExpansionAgent.tried_running_headers
    tried_last_pages,       \* ExpansionAgent.tried_last_pages
    pc,                     \* position of the caller in ExpansionAgent.run
    ppc,                    \* position in Pipeline.run ("none": agent used alone)
    pipe,                   \* what is kept of the Pipeline.run call
    calls,                  \* log of the collaborator calls made so far
    hist,                   \* history of the current agent: counters, snapshots
    probe                   \* what is kept of an operation examined on its own

vars == <<record, document, max_iterations, iteration, tried_running_headers,
          tried_last_pages, pc, ppc, pipe, calls, hist, probe>>

agentVars == <<max_iterations, iteration, tried_running_headers, tried_last_pages>>

-----------------------------------------------------------------------------
(* Bounds of the model.                                                    *)

\* run() is called at most MaxRuns times on one agent
MaxRuns == 2
\* max_iterations is drawn from 0..MaxMaxIterations
MaxMaxIterations == 2

-----------------------------------------------------------------------------
(* Python values.  An optional string field holds None or a string; both   *)
(* None and "" are falsy.                                                  *)

None == "None"

Truthy(v) == v # None /\ v # ""

\* int(): the digit strings of this model; on any other string int() raises
\* ValueError.
IntStrings == {"1234", "2019", "2020", "2021", "2023"}

int(str) ==
    CASE str = "1234" -> 1234 [] str = "2019" -> 2019
      [] str = "2020" -> 2020 [] str = "2021" -> 2021
      [] str = "2023" -> 2023

\* issued: DateParts | None.  year 0 stands for a year that is None or 0
\* (both falsy); a DateParts object itself is always truthy.
NoIssued == [present |-> FALSE, year |-> 0]

DateParts(y) == [present |-> TRUE, year |-> y]

Author(family, given) == [family |-> family, given |-> given, literal |-> None]

\* The optional string fields of a BibliographyRecord the model follows.
StringFields == {"title", "container_title", "volume", "issue", "page",
                 "publisher", "publisher_place", "doi", "issn", "isbn"}

\* The bibliographic fields: everything but status, confidence and evidence.
BibFields == StringFields \cup {"type", "author", "issued"}

BibliographyRecord(type) ==
    [type |-> type, title |-> None, author |-> <<>>, issued |-> NoIssued,
     container_title |-> None, volume |-> None, issue |-> None, page |-> None,
     publisher |-> None, publisher_place |-> None,
     doi |-> None, issn |-> None, isbn |-> None,
     status |-> "needs_review", confidence |-> 0, evidence |-> <<>>]

\* getattr(self, f) taken as a condition
Present(r, f) ==
    CASE f = "author" -> r.author # <<>>
      [] f = "issued" -> r.issued.present
      [] OTHER -> Truthy(r[f])

Count(r, fields) == Cardinality({f \in fields : Present(r, f)})

SameBib(r1, r2) == \A f \in BibFields : r1[f] = r2[f]

-----------------------------------------------------------------------------
(* BibliographyRecord.calculate_confidence and determine_status.           *)
(* Confidence is held in hundredths (0..100).                              *)

required_fields == {"title", "author", "issued"}
structure_fields == {"container_title", "volume", "issue", "page"}
publication_fields == {"publisher", "publisher_place"}

\* score in 1/10000: (req/3)*0.6 + (st/4)*0.25 + (pub/2)*0.15
RawScore(req, st, pub) == req * 2000 + st * 625 + pub * 750

\* The counts whose exact score ends in ...50 and which the binary floating
\* point sum puts above the half, so that round(score, 2) goes up; every
\* other half case computes just below the half and goes down.
HalfRoundsUp == {<<0, 2, 2>>, <<0, 4, 1>>, <<3, 2, 2>>}

\* A variant that cuts the score off after two decimals.
Truncate2(req, st, pub) == RawScore(req, st, pub) \div 100

\* round(score, 2), in hundredths
Round2(req, st, pub) ==
    LET raw == RawScore(req, st, pub)
    IN  IF raw % 100 = 50
        THEN (raw \div 100) + (IF <<req, st, pub>> \in HalfRoundsUp THEN 1 ELSE 0)
        ELSE (raw + 50) \div 100

calculate_confidence(r) ==
    Round2(Count(r, required_fields), Count(r, structure_fields),
           Count(r, publication_fields))

SimpleConfirmed == 80
SimpleNeedsReview == 40

\* A variant with the thresholds of the ConfidenceScorer.
StatusOfScorerThresholds(confidence) ==
    IF confidence >= 75 THEN "confirmed"
    ELSE IF confidence >= 40 THEN "needs_review"
    ELSE "failed"

StatusOf(confidence) ==
    IF confidence >= SimpleConfirmed THEN "confirmed"
    ELSE IF confidence >= SimpleNeedsReview THEN "needs_review"
    ELSE "failed"

determine_status(r) ==
    [r EXCEPT !.confidence = calculate_confidence(r),
              !.status = StatusOf(calculate_confidence(r))]

-----------------------------------------------------------------------------
(* ConfidenceScorer (validation/scorer.py).  It scores a dictionary with   *)
(* the keys title, authors, year, container_title, volume, issue, pages,   *)
(* publisher, publisher_place, doi, issn, isbn and document_type.  Field   *)
(* scores and weights are in hundredths, category scores in 1/10^4, the    *)
(* overall score in 1/10^6.  year is [present, year]; authors a sequence   *)
(* (empty when absent); document_type "" when absent.                      *)
(* The arithmetic here is exact.  The code adds binary floating-point      *)
(* numbers, and a sum can come out one unit in the last place below the    *)
(* decimal value (0.35 + 0.30 is 0.6499999999999999): the two agree on     *)
(* every score to 10^-6, and on the status unless the decimal score is     *)
(* exactly a threshold and the floating-point one just below it.           *)

REQUIRED_FIELDS == [title |-> 35, authors |-> 35, year |-> 30]
STRUCTURE_FIELDS == [container_title |-> 30, volume |-> 25, issue |-> 20, pages |-> 25]
PUBLICATION_FIELDS == [publisher |-> 50, publisher_place |-> 50]
IDENTIFIER_FIELDS == [doi |-> 50, issn |-> 25, isbn |-> 25]
CATEGORY_WEIGHTS == [required |-> 50, structure |-> 25, publication |-> 15,
                     identifier |-> 10]

CONFIRMED_THRESHOLD == 750000
NEEDS_REVIEW_THRESHOLD == 400000

\* Strings that value.strip() empties.
BlankStrings == {"", " "}

_is_field_present(field_name, value) ==
    CASE field_name = "authors" -> value # << >>
      [] field_name = "year" -> value.present
      [] OTHER -> value # None /\ value \notin BlankStrings

_score_title(title) ==
    IF Len(title) < 5 THEN 30
    ELSE IF Len(title) < 15 THEN 70
    ELSE IF Len(title) > 500 THEN 80
    ELSE 100

\* The scorer counts the authors that are dicts with a family or a literal.
_score_authors(authors) ==
    LET valid == Cardinality({i \in 1..Len(authors) :
                    Truthy(authors[i].family) \/ Truthy(authors[i].literal)})
    IN  IF valid = 0 THEN 0 ELSE IF valid < Len(authors) THEN 70 ELSE 100

_score_year(year) ==
    IF 1800 <= year /\ year <= 2030 THEN 100
    ELSE IF 1500 <= year /\ year < 1800 THEN 80
    ELSE 30

\* The page values of this model that match ^\d+(-\d+)?$ .
StandardPages == {"1-20", "12", "123-145", "200-210"}

_score_pages(pages) == IF pages \in StandardPages THEN 100 ELSE 70

_score_field(field_name, value) ==
    IF ~_is_field_present(field_name, value) THEN 0
    ELSE CASE field_name = "title" -> _score_title(value)
           [] field_name = "authors" -> _score_authors(value)
           [] field_name = "year" -> _score_year(value.year)
           [] field_name = "pages" -> _score_pages(value)
           [] OTHER -> 100

RECURSIVE SumOver(_, _)
SumOver(f, S) ==
    IF S = {} THEN 0
    ELSE LET x == CHOOSE x \in S : TRUE IN f[x] + SumOver(f, S \ {x})

\* A variant that divides by the weight of the fields that are present.
ScoreCategoryOverPresent(d, fields) ==
    LET present == {f \in DOMAIN fields : _is_field_present(f, d[f])}
    IN  IF present = {} THEN 0
        ELSE (SumOver([f \in DOMAIN fields |-> _score_field(f, d[f]) * fields[f]],
                      DOMAIN fields) * 100)
             \div SumOver(fields, present)

\* weighted_sum / total_weight, in 1/10^4 (every total_weight is 1.00)
_score_category(d, fields) ==
    (SumOver([f \in DOMAIN fields |-> _score_field(f, d[f]) * fields[f]],
             DOMAIN fields) * 100)
    \div SumOver(fields, DOMAIN fields)

_detect_document_type(d) ==
    IF d.document_type # ""
    THEN IF d.document_type \in {"article", "book", "chapter", "report",
                                 "thesis", "proceedings"}
         THEN d.document_type ELSE "unknown"
    ELSE IF Truthy(d.container_title) /\ Truthy(d.volume) THEN "article"
    ELSE IF Truthy(d.publisher) /\ ~Truthy(d.container_title) THEN "book"
    ELSE IF Truthy(d.isbn) THEN "book"
    ELSE "unknown"

Min(a, b) == IF a <= b THEN a ELSE b
Max(a, b) == IF a >= b THEN a ELSE b

_adjust_for_document_type(score, d, doc_type) ==
    IF doc_type = "book" /\ ~Truthy(d.container_title)
    THEN Min(1000000, score + 50000)
    ELSE IF doc_type = "article" /\ ~Truthy(d.container_title)
    THEN Max(0, score - 100000)
    ELSE score

\* A threshold argument of the constructor: None, or a number (in 1/10^6).
NoThreshold == [given |-> FALSE, value |-> 0]

Threshold(value) == [given |-> TRUE, value |-> value]

\* `threshold or default`: None and 0.0 are falsy.
ThresholdOr(threshold, default) ==
    IF threshold.given /\ threshold.value # 0 THEN threshold.value ELSE default

\* ConfidenceScorer(confirmed_threshold, needs_review_threshold)
ConfidenceScorer(confirmed_threshold, needs_review_threshold) ==
    [confirmed_threshold |-> ThresholdOr(confirmed_threshold, CONFIRMED_THRESHOLD),
     needs_review_threshold |->
        ThresholdOr(needs_review_threshold, NEEDS_REVIEW_THRESHOLD)]

_determine_status(self, score) ==
    IF score >= self.confirmed_threshold THEN "confirmed"
    ELSE IF score >= self.needs_review_threshold THEN "needs_review"
    ELSE "failed"

\* ConfidenceScorer.score: the overall score and the status
score(self, d) ==
    LET overall ==
            _score_category(d, REQUIRED_FIELDS) * CATEGORY_WEIGHTS.required
            + _score_category(d, STRUCTURE_FIELDS) * CATEGORY_WEIGHTS.structure
            + _score_category(d, PUBLICATION_FIELDS) * CATEGORY_WEIGHTS.publication
            + _score_category(d, IDENTIFIER_FIELDS) * CATEGORY_WEIGHTS.identifier
        adjusted == _adjust_for_document_type(overall, d, _detect_document_type(d))
    IN  [overall_score |-> adjusted, status |-> _determine_status(self, adjusted)]

-----------------------------------------------------------------------------
(* PatternMatch sequences the pattern matcher hands back to the agent.     *)

Match(field_name, value, confidence) ==
    [field_name |-> field_name, value |-> value, confidence |-> confidence]

\* ExtractionResult.matches for the text of the scanned pages: nothing, the
\* header of the test, several candidates per field (with a tie), places.
RuleResults ==
    { << >>,
      << Match("volume", "10", 85), Match("pages", "123-145", 90) >>,
      << Match("pages", "12", 70), Match("pages", "123-145", 90),
         Match("pages", "200-210", 90), Match("year", "2023", 80),
         Match("volume", "9", 75), Match("volume", "10", 85) >>,
      << Match("place", "Paris", 90) >>,
      << Match("place", "Berlin", 80), Match("place", "Paris", 90),
         Match("place", "Oxford", 90), Match("volume", "3", 75) >> }

\* The loop of the actions: the first match of the field with the highest
\* confidence (a later match replaces the best only when strictly better).
\* 0 stands for None.
RECURSIVE BestFrom(_, _, _, _)
BestFrom(matches, field, i, best) ==
    IF i > Len(matches) THEN best
    ELSE IF matches[i].field_name = field
            /\ (best = 0 \/ matches[i].confidence > matches[best].confidence)
         THEN BestFrom(matches, field, i + 1, i)
         ELSE BestFrom(matches, field, i + 1, best)

\* A variant that takes the first match of the field, whatever its confidence.
FirstMatch(matches, field) ==
    IF \E i \in 1..Len(matches) : matches[i].field_name = field
    THEN CHOOSE i \in 1..Len(matches) :
            /\ matches[i].field_name = field
            /\ \A j \in 1..(i - 1) : matches[j].field_name # field
    ELSE 0

\* A variant in which, on equal confidence, the later match wins.
LastBestMatch(matches, field) ==
    IF \E i \in 1..Len(matches) : matches[i].field_name = field
    THEN CHOOSE i \in 1..Len(matches) :
            /\ matches[i].field_name = field
            /\ \A j \in 1..Len(matches) :
                  matches[j].field_name = field =>
                     \/ matches[j].confidence < matches[i].confidence
                     \/ matches[j].confidence = matches[i].confidence /\ j <= i
    ELSE 0

BestMatch(matches, field) == BestFrom(matches, field, 1, 0)

\* LLMExtractionResult.publisher as returned for the last pages' text
LlmPublishers == {None, "Example Press"}

-----------------------------------------------------------------------------
(* Page scanning inside an action.                                         *)

\* What happens to one page: render_page raises, the OCR raises, the OCR
\* finds no text, the OCR returns text.
PageOutcomes == {"render_raises", "ocr_raises", "empty", "text"}

PageText(p) == "text of page " \o ToString(p)

RECURSIVE JoinLines(_)
JoinLines(texts) ==
    IF Len(texts) = 0 THEN ""
    ELSE IF Len(texts) = 1 THEN texts[1]
    ELSE texts[1] \o "\n" \o JoinLines(Tail(texts))

\* A variant in which the scan stops at the first page that fails.
RECURSIVE ScannedTextsStopAtFailure(_, _, _)
ScannedTextsStopAtFailure(pages, outcome, i) ==
    IF i > Len(pages) THEN << >>
    ELSE IF outcome[i] \in {"render_raises", "ocr_raises"} THEN << >>
    ELSE (IF outcome[i] = "text" THEN << PageText(pages[i]) >> ELSE << >>)
         \o ScannedTextsStopAtFailure(pages, outcome, i + 1)

\* The texts appended to headers_text / last_pages_text, in scan order.
RECURSIVE ScannedTexts(_, _, _)
ScannedTexts(pages, outcome, i) ==
    IF i > Len(pages) THEN << >>
    ELSE (IF outcome[i] = "text" THEN << PageText(pages[i]) >> ELSE << >>)
         \o ScannedTexts(pages, outcome, i + 1)

\* The number of OCR calls of a scan: one per page that rendered.
OcrCalls(pages, outcome) ==
    Cardinality({i \in 1..Len(pages) : outcome[i] # "render_raises"})

-----------------------------------------------------------------------------
(* ExpansionAgent.                                                         *)

DefaultMaxIterations == 2

\* A variant that asks of every type what is asked of a book.
IsCompleteAsBook(r) ==
    \A f \in {"title", "author", "issued", "publisher", "publisher_place"} :
        Present(r, f)

\* A variant that does not ask an article-journal for its volume.
IsCompleteNoVolume(r) ==
    IF r.type = "article-journal"
    THEN \A f \in {"title", "author", "issued", "container_title", "page"} :
            Present(r, f)
    ELSE IF r.type = "book"
    THEN \A f \in {"title", "author", "issued", "publisher", "publisher_place"} :
            Present(r, f)
    ELSE \A f \in {"title", "author", "issued"} : Present(r, f)

_is_complete(r) ==
    IF r.type = "article-journal"
    THEN \A f \in {"title", "author", "issued", "container_title", "page", "volume"} :
            Present(r, f)
    ELSE IF r.type = "book"
    THEN \A f \in {"title", "author", "issued", "publisher", "publisher_place"} :
            Present(r, f)
    ELSE \A f \in {"title", "author", "issued"} : Present(r, f)

\* A variant that does not look at the tried flags.
ChooseActionRetry(r, tried_rh, tried_lp) ==
    IF r.type = "article-journal"
       /\ ~(Present(r, "page") /\ Present(r, "volume"))
    THEN "running_headers"
    ELSE IF ~(Present(r, "publisher") /\ Present(r, "publisher_place"))
    THEN "publication_info"
    ELSE "none"

\* A variant that tries rule 2 before rule 1.
ChooseActionPublicationFirst(r, tried_rh, tried_lp) ==
    IF ~(Present(r, "publisher") /\ Present(r, "publisher_place")) /\ ~tried_lp
    THEN "publication_info"
    ELSE IF r.type = "article-journal"
            /\ ~(Present(r, "page") /\ Present(r, "volume"))
            /\ ~tried_rh
    THEN "running_headers"
    ELSE "none"

\* The rule _choose_and_execute_action takes: the action it calls, or "none"
\* when it returns False without calling one.
ChooseAction(r, tried_rh, tried_lp) ==
    IF r.type = "article-journal"
       /\ ~(Present(r, "page") /\ Present(r, "volume"))
       /\ ~tried_rh
    THEN "running_headers"
    ELSE IF ~(Present(r, "publisher") /\ Present(r, "publisher_place"))
            /\ ~tried_lp
    THEN "publication_info"
    ELSE "none"

\* pages_to_scan of _action_find_running_headers
HeaderPages(doc) == SelectSeq(<<4, 5, 6>>, LAMBDA p : p < doc.page_count)

\* pages_to_scan of _action_find_publication_info
LastPages(doc) ==
    (IF doc.page_count >= 1 THEN << doc.page_count >> ELSE << >>)
    \o (IF doc.page_count >= 2 THEN << doc.page_count - 1 >> ELSE << >>)

\* What the pattern matcher and the language model answer inside an action.
RuleOutcomes ==
    [raises : {FALSE}, matches : RuleResults]
    \cup {[raises |-> TRUE, matches |-> << >>]}

LlmOutcomes ==
    [raises : {FALSE}, publisher : LlmPublishers]
    \cup {[raises |-> TRUE, publisher |-> None]}

\* The outcome of an action: the record it leaves, its return value, whether
\* an exception left it, the tried flag it leaves, and the calls it made.
\* (render: the pages rendered; ocr: the number of OCR calls; rule, llm: the
\* text handed to the pattern matcher and to the language model, if called;
\* matches: what the pattern matcher returned.)
Effect(r, taken, raised, tried, render, ocr, rule, llm, matches) ==
    [record |-> r, action_taken |-> taken, raised |-> raised, tried |-> tried,
     render |-> render, ocr |-> ocr, rule |-> rule, llm |-> llm,
     matches |-> matches]

\* _action_find_running_headers, for the given answers of its collaborators:
\* outcome[i] for the i-th page scanned, rule for the pattern matcher.
_action_find_running_headers(r, doc, outcome, rule) ==
    LET pages == HeaderPages(doc)
        texts == ScannedTexts(pages, outcome, 1)
        bp == BestMatch(rule.matches, "pages")
        bv == BestMatch(rule.matches, "volume")
        setPage == ~Present(r, "page") /\ bp # 0
        setVolume == ~Present(r, "volume") /\ bv # 0
        r1 == IF setPage THEN [r EXCEPT !.page = rule.matches[bp].value] ELSE r
        r2 == IF setVolume THEN [r1 EXCEPT !.volume = rule.matches[bv].value] ELSE r1
    IN  IF ~doc.is_pdf \/ doc.page_count < 5
        THEN Effect(r, FALSE, FALSE, TRUE, << >>, 0, << >>, << >>, << >>)
        ELSE IF texts = << >>
        THEN Effect(r, FALSE, FALSE, TRUE, pages, OcrCalls(pages, outcome),
                    << >>, << >>, << >>)
        ELSE IF rule.raises
        THEN Effect(r, FALSE, TRUE, TRUE, pages, OcrCalls(pages, outcome),
                    << JoinLines(texts) >>, << >>, << >>)
        ELSE Effect(r2, setPage \/ setVolume, FALSE, TRUE, pages,
                    OcrCalls(pages, outcome), << JoinLines(texts) >>, << >>,
                    rule.matches)

\* _action_find_publication_info, for the given answers of its collaborators.
_action_find_publication_info(r, doc, outcome, rule, llm) ==
    LET pages == LastPages(doc)
        texts == ScannedTexts(pages, outcome, 1)
        bpl == BestMatch(rule.matches, "place")
        setPlace == ~Present(r, "publisher_place") /\ bpl # 0
        setPublisher == ~Present(r, "publisher") /\ Truthy(llm.publisher)
        r1 == IF setPlace
              THEN [r EXCEPT !.publisher_place = rule.matches[bpl].value] ELSE r
        r2 == IF setPublisher THEN [r1 EXCEPT !.publisher = llm.publisher] ELSE r1
    IN  IF ~doc.is_pdf \/ doc.page_count < 1
        THEN Effect(r, FALSE, FALSE, TRUE, << >>, 0, << >>, << >>, << >>)
        ELSE IF texts = << >>
        THEN Effect(r, FALSE, FALSE, TRUE, pages, OcrCalls(pages, outcome),
                    << >>, << >>, << >>)
        ELSE IF rule.raises
        THEN Effect(r, FALSE, TRUE, TRUE, pages, OcrCalls(pages, outcome),
                    << JoinLines(texts) >>, << >>, << >>)
        ELSE IF llm.raises
        THEN Effect(r1, setPlace, TRUE, TRUE, pages, OcrCalls(pages, outcome),
                    << JoinLines(texts) >>, << JoinLines(texts) >>, rule.matches)
        ELSE Effect(r2, setPlace \/ setPublisher, FALSE, TRUE, pages,
                    OcrCalls(pages, outcome), << JoinLines(texts) >>,
                    << JoinLines(texts) >>, rule.matches)

\* A variant in which a break for "no action taken" returns at once, without
\* the final status determination.
AfterBodyEarlyReturn(complete, chosen, eff) ==
    IF complete THEN "final"
    ELSE IF chosen = "none" THEN "idle"
    ELSE IF eff.raised THEN "raised"
    ELSE IF eff.action_taken THEN "loop"
    ELSE "idle"

\* Where run() goes after the body of the loop: `complete` is _is_complete(),
\* `eff` the outcome of _choose_and_execute_action ("none": no action called).
AfterBody(complete, chosen, eff) ==
    IF complete THEN "final"
    ELSE IF chosen = "none" THEN "final"
    ELSE IF eff.raised THEN "raised"
    ELSE IF eff.action_taken THEN "loop"
    ELSE "final"

NoEffect(r) == Effect(r, FALSE, FALSE, FALSE, << >>, 0, << >>, << >>, << >>)

LogCalls(eff) ==
    [calls EXCEPT !.render = @ \o eff.render, !.ocr = @ \/ eff.ocr > 0,
                  !.rule = @ + Len(eff.rule), !.llm = @ + Len(eff.llm)]

\* One pass through the body of the while loop of run(), with `eff` the
\* outcome of the action chosen.
Body(chosen, eff) ==
    /\ iteration' = iteration + 1
    /\ record' = eff.record
    /\ tried_running_headers' =
          (tried_running_headers \/ (chosen = "running_headers" /\ eff.tried))
    /\ tried_last_pages' =
          (tried_last_pages \/ (chosen = "publication_info" /\ eff.tried))
    /\ pc' = AfterBody(_is_complete(record), chosen, eff)
    /\ calls' = LogCalls(eff)
    /\ hist' = [hist EXCEPT
                  !.bodies = @ + 1,
                  !.run_bodies = @ + 1,
                  !.execs_rh = @ + (IF chosen = "running_headers" THEN 1 ELSE 0),
                  !.execs_pi = @ + (IF chosen = "publication_info" THEN 1 ELSE 0),
                  !.headers = IF chosen = "running_headers"
                              THEN [scanned |-> Len(eff.rule) = 1 /\ ~eff.raised,
                                    matches |-> eff.matches]
                              ELSE @,
                  !.last = [chosen |-> chosen,
                            changed |-> ~SameBib(record, eff.record),
                            before |-> record,
                            tried_rh |-> tried_running_headers,
                            tried_lp |-> tried_last_pages,
                            rule_text |-> eff.rule,
                            llm_text |-> eff.llm]]
    /\ UNCHANGED <<document, max_iterations, ppc, pipe, probe>>

Scans(pages) == [1..Len(pages) -> PageOutcomes]

\* while self.iteration < self.max_iterations: one iteration
AgentIterate ==
    /\ pc = "loop"
    /\ iteration < max_iterations
    /\ IF _is_complete(record)
       THEN Body("complete", NoEffect(record))
       ELSE LET chosen == ChooseAction(record, tried_running_headers, tried_last_pages)
            IN  CASE chosen = "running_headers" ->
                       \E outcome \in Scans(HeaderPages(document)),
                          rule \in RuleOutcomes :
                          Body(chosen, _action_find_running_headers(
                                          record, document, outcome, rule))
                  [] chosen = "publication_info" ->
                       \E outcome \in Scans(LastPages(document)),
                          rule \in RuleOutcomes, llm \in LlmOutcomes :
                          Body(chosen, _action_find_publication_info(
                                          record, document, outcome, rule, llm))
                  [] OTHER -> Body("none", NoEffect(record))

\* The loop is left (its condition fails, or a break): final status
\* determination, and run() returns the record.
AgentFinish ==
    /\ \/ pc = "final"
       \/ pc = "loop" /\ iteration >= max_iterations
    /\ record' = determine_status(record)
    /\ pc' = "idle"
    /\ hist' = [hist EXCEPT !.status_calls = @ + 1, !.returns = @ + 1]
    /\ UNCHANGED <<document, agentVars, ppc, pipe, calls, probe>>

\* The history of an agent at the start of a run() call, on record r, with
\* call log c and the tried flags as given.
StartRun(h, r, c, tried_rh, tried_lp) ==
    [h EXCEPT !.runs = @ + 1, !.run_bodies = 0, !.status_calls = 0,
              !.rec0 = r, !.calls0 = c,
              !.tried0 = <<tried_rh, tried_lp>>,
              !.last = [chosen |-> "start", changed |-> FALSE, before |-> r,
                        tried_rh |-> tried_rh,
                        tried_lp |-> tried_lp,
                        rule_text |-> << >>, llm_text |-> << >>]]

\* A variant in which run() starts its count of iterations afresh.
AgentRunResets ==
    /\ ppc = "none"
    /\ pc \in {"idle", "raised"}
    /\ hist.runs < MaxRuns
    /\ pc' = "loop"
    /\ iteration' = 0
    /\ hist' = StartRun(hist, record, calls, tried_running_headers,
                         tried_last_pages)
    /\ UNCHANGED <<record, document, max_iterations, tried_running_headers,
                   tried_last_pages, ppc, pipe, calls, probe>>

\* The caller calls run() on the agent (again).
AgentRun ==
    /\ ppc = "none"
    /\ pc \in {"idle", "raised"}
    /\ hist.runs < MaxRuns
    /\ pc' = "loop"
    /\ hist' = StartRun(hist, record, calls, tried_running_headers,
                         tried_last_pages)
    /\ UNCHANGED <<record, document, agentVars, ppc, pipe, calls, probe>>

-----------------------------------------------------------------------------
(* The agent used on its own (as the tests do): a record, a document and a *)
(* bound are given, and run() is called up to MaxRuns times.               *)

\* The pages rendered, in order; whether the OCR was called; the number of
\* calls of the pattern matcher, the language model, the Merger and the web
\* search.
NoCalls == [render |-> << >>, ocr |-> FALSE, rule |-> 0, llm |-> 0,
            merge |-> 0, search |-> 0]

\* runs, returns: run() calls started and returned; bodies, run_bodies: loop
\* bodies executed in all and in the current run; execs_rh, execs_pi:
\* executions of the two actions; status_calls: status determinations of the
\* current run; first, rec0, calls0, tried0: the record at construction, and
\* the record, call log and flags at the start of the current run; headers:
\* what the pattern matcher returned to the running-header action; last: the
\* last loop body.
NewHistory(r) ==
    [runs |-> 0, returns |-> 0, bodies |-> 0, run_bodies |-> 0,
     execs_rh |-> 0, execs_pi |-> 0, status_calls |-> 0,
     first |-> r, rec0 |-> r, calls0 |-> NoCalls, tried0 |-> <<FALSE, FALSE>>,
     headers |-> [scanned |-> FALSE, matches |-> << >>],
     last |-> [chosen |-> "start", changed |-> FALSE, before |-> r,
               tried_rh |-> FALSE, tried_lp |-> FALSE,
               rule_text |-> << >>, llm_text |-> << >>]]

RecordTypes == {"article-journal", "book", "article"}

\* The fields an initial record may hold, with the value each then has.
GivenFields == {"title", "author", "issued", "container_title", "volume",
                "page", "publisher", "publisher_place"}

\* The required fields an initial record holds: none, all but the date, all.
RequiredGiven == {{}, {"title", "author"}, {"title", "author", "issued"}}

GivenValue(f) ==
    CASE f = "title" -> "A Test Paper"
      [] f = "author" -> << Author("Doe", "J.") >>
      [] f = "issued" -> DateParts(2023)
      [] f = "container_title" -> "Journal of Testing"
      [] f = "volume" -> "7"
      [] f = "page" -> "1-20"
      [] f = "publisher" -> "Old Press"
      [] f = "publisher_place" -> "London"

GivenRecord(type, given) ==
    [f \in DOMAIN BibliographyRecord(type) |->
        IF f \in given THEN GivenValue(f) ELSE BibliographyRecord(type)[f]]

\* Documents: an image (one page), or a PDF with one of these page counts.
PdfPageCounts == {0, 1, 5, 6, 10}

Documents ==
    {[is_pdf |-> FALSE, document_type |-> "image", page_count |-> 1]}
    \cup [is_pdf : {TRUE}, document_type : {"scanned_pdf"},
          page_count : PdfPageCounts]

\* What is kept of a Pipeline.run() call: the number of pages selected, of
\* pages whose text extraction or OCR returned non-blank text, and of texts
\* in page_texts; where an exception left run(); the record as agent.run()
\* returned it (a sequence of at most one record).
NoPipe == [selected |-> 0, nonblank |-> 0, texts |-> 0, raised_in |-> "none",
           after_agent |-> << >>]

\* The result of one _is_complete() call made on its own.
NoProbe == [called |-> FALSE, result |-> FALSE]

Init ==
    /\ \E type \in RecordTypes, req \in RequiredGiven,
          given \in SUBSET (GivenFields \ required_fields) :
          record = GivenRecord(type, req \cup given)
    /\ document \in Documents
    /\ max_iterations \in 0..MaxMaxIterations
    /\ iteration = 0
    /\ tried_running_headers = FALSE
    /\ tried_last_pages = FALSE
    /\ pc = "idle"
    /\ ppc = "none"
    /\ pipe = NoPipe
    /\ calls = NoCalls
    /\ hist = NewHistory(record)
    /\ probe = NoProbe

Next == AgentRun \/ AgentIterate \/ AgentFinish

Spec == Init /\ [][Next]_vars

-----------------------------------------------------------------------------
(* _is_complete() called on its own, on records of every type and with    *)
(* every combination of absent, empty and present fields.                  *)

ProbeTypes == {"article-journal", "book", "article", "chapter", "unknown"}

ProbeStrings == {None, "", "x"}

ProbeRecords ==
    {[BibliographyRecord(type) EXCEPT
         !.title = f[1], !.container_title = f[2], !.page = f[3],
         !.volume = f[4], !.publisher = f[5], !.publisher_place = f[6],
         !.author = author, !.issued = issued] :
       type \in ProbeTypes,
       f \in [1..6 -> ProbeStrings],
       author \in {<< >>, << Author("Doe", "J.") >>},
       issued \in {NoIssued, DateParts(2023), DateParts(0)}}

IsCompleteInit ==
    /\ record \in ProbeRecords
    /\ document = [is_pdf |-> FALSE, document_type |-> "image", page_count |-> 1]
    /\ max_iterations = DefaultMaxIterations
    /\ iteration = 0
    /\ tried_running_headers = FALSE
    /\ tried_last_pages = FALSE
    /\ pc = "idle"
    /\ ppc = "probe"
    /\ pipe = NoPipe
    /\ calls = NoCalls
    /\ hist = NewHistory(record)
    /\ probe = NoProbe

IsCompleteCall ==
    /\ ppc = "probe"
    /\ ~probe.called
    /\ probe' = [called |-> TRUE, result |-> _is_complete(record)]
    /\ UNCHANGED <<record, document, agentVars, pc, ppc, pipe, calls, hist>>

IsCompleteSpec == IsCompleteInit /\ [][IsCompleteCall]_vars

-----------------------------------------------------------------------------
(* determine_status() called on its own, on records with every combination *)
(* of the nine fields it counts, whatever status they had before.          *)

CountedFields == required_fields \cup structure_fields \cup publication_fields

\* The value a counted field has when it is present in these records.
CountedValue(f) ==
    CASE f = "title" -> "Test"
      [] f = "author" -> << Author("Doe", None) >>
      [] f = "issued" -> DateParts(2023)
      [] OTHER -> "x"

Statuses == {"confirmed", "needs_review", "failed"}

StatusRecords ==
    {[f \in DOMAIN BibliographyRecord("article-journal") |->
         IF f \in given THEN CountedValue(f)
         ELSE IF f = "status" THEN status
         ELSE BibliographyRecord("article-journal")[f]] :
       given \in SUBSET CountedFields, status \in Statuses}

DetermineStatusInit ==
    /\ record \in StatusRecords
    /\ document = [is_pdf |-> FALSE, document_type |-> "image", page_count |-> 1]
    /\ max_iterations = DefaultMaxIterations
    /\ iteration = 0
    /\ tried_running_headers = FALSE
    /\ tried_last_pages = FALSE
    /\ pc = "idle"
    /\ ppc = "status"
    /\ pipe = NoPipe
    /\ calls = NoCalls
    /\ hist = NewHistory(record)
    /\ probe = NoProbe

\* record.determine_status(); probe.result tells that it returned the
\* status it has set.
DetermineStatusCall ==
    /\ ppc = "status"
    /\ ~probe.called
    /\ record' = determine_status(record)
    /\ probe' = [called |-> TRUE, result |-> TRUE]
    /\ UNCHANGED <<document, agentVars, pc, ppc, pipe, calls, hist>>

DetermineStatusSpec == DetermineStatusInit /\ [][DetermineStatusCall]_vars

-----------------------------------------------------------------------------
(* One expansion action called on its own, on an agent just constructed:   *)
(* the record, the document and the answers of the collaborators are       *)
(* drawn, and what the action was given and what it did is kept.           *)

\* The fields the two actions look at, held or not by the record.
ActionFields == {"page", "volume", "publisher", "publisher_place"}

ActionRecords ==
    {GivenRecord(type, {"title", "container_title"} \cup given) :
        type \in {"article-journal", "book"}, given \in SUBSET ActionFields}

\* The language model is not asked.
LlmNotAsked == [raises |-> FALSE, publisher |-> None]

\* What is kept of the call: the action, the record before it, the answers
\* of the collaborators, and the outcome of the action.
ActionProbe(action, before, outcome, rule, llm, eff) ==
    [called |-> TRUE, action |-> action, before |-> before,
     outcome |-> outcome, rule |-> rule, llm |-> llm, eff |-> eff]

ActionInit ==
    /\ record \in ActionRecords
    /\ document \in Documents
    /\ max_iterations = DefaultMaxIterations
    /\ iteration = 0
    /\ tried_running_headers = FALSE
    /\ tried_last_pages = FALSE
    /\ pc = "idle"
    /\ ppc = "action"
    /\ pipe = NoPipe
    /\ calls = NoCalls
    /\ hist = NewHistory(record)
    /\ probe = NoProbe

\* agent._action_find_running_headers()
CallFindRunningHeaders ==
    /\ ppc = "action"
    /\ ~probe.called
    /\ \E outcome \in Scans(HeaderPages(document)), rule \in RuleOutcomes :
          LET eff == _action_find_running_headers(record, document, outcome, rule)
          IN  /\ record' = eff.record
              /\ tried_running_headers' = eff.tried
              /\ pc' = IF eff.raised THEN "raised" ELSE "idle"
              /\ calls' = LogCalls(eff)
              /\ probe' = ActionProbe("running_headers", record, outcome, rule,
                                      LlmNotAsked, eff)
    /\ UNCHANGED <<document, max_iterations, iteration, tried_last_pages, ppc,
                   pipe, hist>>

\* agent._action_find_publication_info()
CallFindPublicationInfo ==
    /\ ppc = "action"
    /\ ~probe.called
    /\ \E outcome \in Scans(LastPages(document)), rule \in RuleOutcomes,
          llm \in LlmOutcomes :
          LET eff == _action_find_publication_info(record, document, outcome,
                                                   rule, llm)
          IN  /\ record' = eff.record
              /\ tried_last_pages' = eff.tried
              /\ pc' = IF eff.raised THEN "raised" ELSE "idle"
              /\ calls' = LogCalls(eff)
              /\ probe' = ActionProbe("publication_info", record, outcome, rule,
                                      llm, eff)
    /\ UNCHANGED <<document, max_iterations, iteration, tried_running_headers,
                   ppc, pipe, hist>>

ActionNext == CallFindRunningHeaders \/ CallFindPublicationInfo

ActionSpec == ActionInit /\ [][ActionNext]_vars

-----------------------------------------------------------------------------
(* RuleBasedExtractor.extract (parsing/rule_based.py) with the patterns of *)
(* parsing/patterns.py.  A text is a sequence of phrases joined by "; ";   *)
(* no pattern matches across that separator, so the matches of a pattern   *)
(* in a text are its matches in each phrase, from left to right.           *)
(* Confidence is held in hundredths.                                       *)

Vocabulary ==
    {"2020", "(2019)", "(1234)", "©2021", "published", "pp. 123-145", "p. 7",
     "Vol. IX", "Vol. 10", "No. 3", "ISBN 978-3-16-148410-0",
     "ISBN 978 3 16 148410 0", "ISSN 1234-5678", "10.1234/abc", "Paris",
     "Leiden", "xxxxxxxxxxxxxxxxxxxxxxxxx", "Published in 2023",
     "ISBN 0-306-40615-2"}

Separator == "; "

RECURSIVE TextOf(_)
TextOf(phrases) ==
    IF phrases = << >> THEN ""
    ELSE IF Len(phrases) = 1 THEN phrases[1]
    ELSE phrases[1] \o Separator \o TextOf(Tail(phrases))

\* The position in the text of the first character of phrase i.
RECURSIVE Offset(_, _)
Offset(phrases, i) ==
    IF i = 1 THEN 0
    ELSE Offset(phrases, i - 1) + Len(phrases[i - 1]) + Len(Separator)

\* A regex match: match.start(), match.end(), match.group(1), and
\* match.group(2) when the pattern has a second group.
Hit(start, end, group1, group2) ==
    [start |-> start, end |-> end, group1 |-> group1, group2 |-> group2]

YEAR_PATTERNS == << "year_standard", "year_parentheses", "year_copyright",
                    "year_range" >>
PAGE_PATTERNS == << "pages_p_range", "pages_word_range", "pages_german",
                    "pages_russian", "pages_colon", "page_single" >>
VOLUME_PATTERNS == << "volume_standard", "volume_abbrev", "volume_french",
                      "volume_russian", "volume_german", "volume_roman_paren",
                      "volume_roman_comma" >>
ISSUE_PATTERNS == << "issue_standard", "issue_numero", "issue_word",
                     "issue_german", "issue_russian", "issue_fascicle",
                     "issue_in_paren" >>
SERIES_PATTERNS == << "series_bulletin", "series_memoir", "series_trudy",
                      "series_izvestiya", "series_zapiski", "series_standard",
                      "series_new" >>
PLACE_PATTERNS == << "place_major", "place_major2", "place_dutch",
                     "place_southern", "place_russia", "place_eastern",
                     "place_nordic", "place_us", "place_canada",
                     "place_australia", "place_before_colon" >>
DOI_PATTERNS == << "doi_standard", "doi_url", "doi_prefix" >>
IDENTIFIER_PATTERNS == << "issn", "isbn13", "isbn10" >>

\* pattern.finditer(phrase), for the phrases of the vocabulary (the patterns
\* are compiled with IGNORECASE, so [n№]°?\s*(\d+) matches inside "ISBN 978"
\* and the ISBN-10 pattern matches the head of an ISBN-13).
finditer(pattern_name, phrase) ==
    CASE pattern_name = "year_standard" /\ phrase = "2020" ->
            << Hit(0, 4, "2020", None) >>
      [] pattern_name = "year_standard" /\ phrase = "(2019)" ->
            << Hit(1, 5, "2019", None) >>
      [] pattern_name = "year_standard" /\ phrase = "©2021" ->
            << Hit(1, 5, "2021", None) >>
      [] pattern_name = "year_standard" /\ phrase = "Published in 2023" ->
            << Hit(13, 17, "2023", None) >>
      [] pattern_name = "year_parentheses" /\ phrase = "(2019)" ->
            << Hit(0, 6, "2019", None) >>
      [] pattern_name = "year_parentheses" /\ phrase = "(1234)" ->
            << Hit(0, 6, "1234", None) >>
      [] pattern_name = "year_copyright" /\ phrase = "©2021" ->
            << Hit(0, 5, "2021", None) >>
      [] pattern_name = "pages_p_range" /\ phrase = "pp. 123-145" ->
            << Hit(0, 11, "123", "145") >>
      [] pattern_name = "page_single" /\ phrase = "p. 7" ->
            << Hit(0, 4, "7", None) >>
      [] pattern_name = "volume_standard" /\ phrase = "Vol. IX" ->
            << Hit(0, 7, "IX", None) >>
      [] pattern_name = "volume_standard" /\ phrase = "Vol. 10" ->
            << Hit(0, 7, "10", None) >>
      [] pattern_name = "issue_standard" /\ phrase = "No. 3" ->
            << Hit(0, 5, "3", None) >>
      [] pattern_name = "issue_numero" /\ phrase = "ISBN 978-3-16-148410-0" ->
            << Hit(3, 8, "978", None) >>
      [] pattern_name = "issue_numero" /\ phrase = "ISBN 978 3 16 148410 0" ->
            << Hit(3, 8, "978", None) >>
      [] pattern_name = "issue_numero" /\ phrase = "ISSN 1234-5678" ->
            << Hit(3, 9, "1234", None) >>
      [] pattern_name = "issue_numero" /\ phrase = "Published in 2023" ->
            << Hit(11, 17, "2023", None) >>
      [] pattern_name = "issue_numero" /\ phrase = "ISBN 0-306-40615-2" ->
            << Hit(3, 6, "0", None) >>
      [] pattern_name = "place_major" /\ phrase = "Paris" ->
            << Hit(0, 5, "Paris", None) >>
      [] pattern_name = "place_dutch" /\ phrase = "Leiden" ->
            << Hit(0, 6, "Leiden", None) >>
      [] pattern_name = "doi_standard" /\ phrase = "10.1234/abc" ->
            << Hit(0, 11, "10.1234/abc", None) >>
      [] pattern_name = "issn" /\ phrase = "ISSN 1234-5678" ->
            << Hit(0, 14, "1234-5678", None) >>
      [] pattern_name = "isbn13" /\ phrase = "ISBN 978-3-16-148410-0" ->
            << Hit(0, 22, "978-3-16-148410-0", None) >>
      [] pattern_name = "isbn13" /\ phrase = "ISBN 978 3 16 148410 0" ->
            << Hit(0, 22, "978 3 16 148410 0", None) >>
      [] pattern_name = "isbn10" /\ phrase = "ISBN 978-3-16-148410-0" ->
            << Hit(0, 13, "978-3-16", None) >>
      [] pattern_name = "isbn10" /\ phrase = "ISBN 978 3 16 148410 0" ->
            << Hit(0, 13, "978 3 16", None) >>
      [] pattern_name = "isbn10" /\ phrase = "ISBN 0-306-40615-2" ->
            << Hit(0, 18, "0-306-40615-2", None) >>
      [] OTHER -> << >>

\* pattern.finditer(text): the matches in phrase i and after, with their
\* positions in the text.
RECURSIVE FindInText(_, _, _)
FindInText(pattern_name, phrases, i) ==
    IF i > Len(phrases) THEN << >>
    ELSE LET hits == finditer(pattern_name, phrases[i])
             off == Offset(phrases, i)
         IN  [k \in 1..Len(hits) |->
                 [hits[k] EXCEPT !.start = @ + off, !.end = @ + off]]
             \o FindInText(pattern_name, phrases, i + 1)

\* A PatternMatch (raw_match and bbox are not followed).
PatternMatch(field_name, value, start, end, confidence, pattern_name, page_number) ==
    [field_name |-> field_name, value |-> value, start |-> start, end |-> end,
     confidence |-> confidence, pattern_name |-> pattern_name,
     page_number |-> page_number]

\* (the source list has one more word, in Cyrillic, that is in no text here)
BoostWords == {"published", "copyright", "©", "année"}

PenaltyWords == {"p.", "pp.", "page", "vol"}

\* The places of those words in phrase.lower().
WordsIn(phrase) ==
    CASE phrase \in {"published", "Published in 2023"} ->
            {[word |-> "published", start |-> 0, end |-> 9]}
      [] phrase = "©2021" -> {[word |-> "©", start |-> 0, end |-> 1]}
      [] phrase = "pp. 123-145" -> {[word |-> "pp.", start |-> 0, end |-> 3],
                                    [word |-> "p.", start |-> 1, end |-> 3]}
      [] phrase = "p. 7" -> {[word |-> "p.", start |-> 0, end |-> 2]}
      [] phrase = "page 12" -> {[word |-> "page", start |-> 0, end |-> 4]}
      [] phrase \in {"Vol. IX", "Vol. 10"} ->
            {[word |-> "vol", start |-> 0, end |-> 3]}
      [] OTHER -> {}

\* any(word in text[context_start:context_end].lower() for word in words)
AnyWordIn(words, phrases, context_start, context_end) ==
    \E i \in 1..Len(phrases) :
       \E w \in WordsIn(phrases[i]) :
          /\ w.word \in words
          /\ Offset(phrases, i) + w.start >= context_start
          /\ Offset(phrases, i) + w.end <= context_end

\* A variant without the cap at 1.0 and the floor at 0.3.
YearConfidenceUnclamped(pattern_name, phrases, hit) ==
    LET base == IF pattern_name = "year_parentheses" THEN 90
                ELSE IF pattern_name = "year_copyright" THEN 95 ELSE 80
        context_start == Max(0, hit.start - 20)
        context_end == Min(Len(TextOf(phrases)), hit.end + 20)
        boosted == IF AnyWordIn(BoostWords, phrases, context_start, context_end)
                   THEN base + 10 ELSE base
    IN  IF AnyWordIn(PenaltyWords, phrases, context_start, context_end)
        THEN boosted - 30 ELSE boosted

\* A variant that applies the penalty before the boost.
YearConfidencePenaltyFirst(pattern_name, phrases, hit) ==
    LET base == IF pattern_name = "year_parentheses" THEN 90
                ELSE IF pattern_name = "year_copyright" THEN 95 ELSE 80
        context_start == Max(0, hit.start - 20)
        context_end == Min(Len(TextOf(phrases)), hit.end + 20)
        lowered == IF AnyWordIn(PenaltyWords, phrases, context_start, context_end)
                   THEN Max(30, base - 30) ELSE base
    IN  IF AnyWordIn(BoostWords, phrases, context_start, context_end)
        THEN Min(100, lowered + 10) ELSE lowered

_calculate_year_confidence(pattern_name, phrases, hit) ==
    LET base == IF pattern_name = "year_parentheses" THEN 90
                ELSE IF pattern_name = "year_copyright" THEN 95 ELSE 80
        context_start == Max(0, hit.start - 20)
        context_end == Min(Len(TextOf(phrases)), hit.end + 20)
        boosted == IF AnyWordIn(BoostWords, phrases, context_start, context_end)
                   THEN Min(100, base + 10) ELSE base
    IN  IF AnyWordIn(PenaltyWords, phrases, context_start, context_end)
        THEN Max(30, boosted - 30) ELSE boosted

is_valid_year(year) == 1500 <= year /\ year <= 2030

\* The characters of the volume numbers of the vocabulary.
Chars(str) ==
    CASE str = "IX" -> << "I", "X" >>
      [] str = "10" -> << "1", "0" >>

RomanValues(char) ==
    CASE char = "I" -> 1 [] char = "V" -> 5 [] char = "X" -> 10
      [] char = "L" -> 50 [] char = "C" -> 100 [] char = "D" -> 500
      [] char = "M" -> 1000 [] OTHER -> 0

\* for char in reversed(roman): from character i down to the first
RECURSIVE RomanFrom(_, _, _, _)
RomanFrom(chars, i, prev, result) ==
    IF i = 0 THEN result
    ELSE LET curr == RomanValues(chars[i])
         IN  RomanFrom(chars, i - 1, curr,
                       IF curr < prev THEN result - curr ELSE result + curr)

roman_to_int(chars) == RomanFrom(chars, Len(chars), 0, 0)

\* match.group(1).replace("–", "-").replace(" ", "")
identifier_value(group) ==
    CASE group = "978 3 16 148410 0" -> "9783161484100"
      [] group = "978 3 16" -> "978316"
      [] OTHER -> group

\* What one of the _extract_* methods appends for one regex match: one
\* PatternMatch, or nothing.
Appended(method, pattern_name, hit, phrases, page_number) ==
    CASE method = "_extract_year" ->
            IF ~is_valid_year(int(hit.group1)) THEN << >>
            ELSE << PatternMatch("year", ToString(int(hit.group1)), hit.start,
                       hit.end,
                       _calculate_year_confidence(pattern_name, phrases, hit),
                       pattern_name, page_number) >>
      [] method = "_extract_pages" ->
            << PatternMatch("pages",
                  IF Truthy(hit.group2) THEN hit.group1 \o "-" \o hit.group2
                  ELSE hit.group1,
                  hit.start, hit.end, IF Truthy(hit.group2) THEN 90 ELSE 70,
                  pattern_name, page_number) >>
      [] method = "_extract_volume" ->
            << PatternMatch("volume",
                  IF \A k \in 1..Len(Chars(hit.group1)) :
                        RomanValues(Chars(hit.group1)[k]) # 0
                  THEN ToString(roman_to_int(Chars(hit.group1)))
                  ELSE hit.group1,
                  hit.start, hit.end, 85, pattern_name, page_number) >>
      [] method = "_extract_issue" ->
            << PatternMatch("issue", hit.group1, hit.start, hit.end, 85,
                            pattern_name, page_number) >>
      [] method = "_extract_series" ->
            << PatternMatch("series", hit.group1, hit.start, hit.end, 80,
                            pattern_name, page_number) >>
      [] method = "_extract_place" ->
            << PatternMatch("place", hit.group1, hit.start, hit.end,
                  IF pattern_name \in {"place_major", "place_major2"}
                  THEN 90 ELSE 75,
                  pattern_name, page_number) >>
      [] method = "_extract_doi" ->
            << PatternMatch("doi", hit.group1, hit.start, hit.end, 95,
                            pattern_name, page_number) >>
      [] method = "_extract_identifiers" ->
            << PatternMatch(pattern_name, identifier_value(hit.group1),
                            hit.start, hit.end, 95, pattern_name, page_number) >>

\* for match in pattern.finditer(text), from match k on
RECURSIVE ForMatches(_, _, _, _, _, _)
ForMatches(method, pattern_name, hits, k, phrases, page_number) ==
    IF k > Len(hits) THEN << >>
    ELSE Appended(method, pattern_name, hits[k], phrases, page_number)
         \o ForMatches(method, pattern_name, hits, k + 1, phrases, page_number)

\* for pattern, pattern_name in COMPILED_..._PATTERNS, from pattern j on
RECURSIVE ForPatterns(_, _, _, _, _)
ForPatterns(method, patterns, j, phrases, page_number) ==
    IF j > Len(patterns) THEN << >>
    ELSE ForMatches(method, patterns[j], FindInText(patterns[j], phrases, 1), 1,
                    phrases, page_number)
         \o ForPatterns(method, patterns, j + 1, phrases, page_number)

\* RuleBasedExtractor.extract(text, page_number): result.matches
extract(phrases, page_number) ==
    ForPatterns("_extract_year", YEAR_PATTERNS, 1, phrases, page_number)
    \o ForPatterns("_extract_pages", PAGE_PATTERNS, 1, phrases, page_number)
    \o ForPatterns("_extract_volume", VOLUME_PATTERNS, 1, phrases, page_number)
    \o ForPatterns("_extract_issue", ISSUE_PATTERNS, 1, phrases, page_number)
    \o ForPatterns("_extract_series", SERIES_PATTERNS, 1, phrases, page_number)
    \o ForPatterns("_extract_place", PLACE_PATTERNS, 1, phrases, page_number)
    \o ForPatterns("_extract_doi", DOI_PATTERNS, 1, phrases, page_number)
    \o ForPatterns("_extract_identifiers", IDENTIFIER_PATTERNS, 1, phrases,
                   page_number)

\* field_map of _set_best_values, in the order of the dictionary: the field
\* of the matches, the field of the result.
field_map ==
    << << "year", "year" >>, << "pages", "pages" >>, << "volume", "volume" >>,
       << "issue", "issue" >>, << "series", "series" >>, << "place", "place" >>,
       << "doi", "doi" >>, << "issn", "issn" >>, << "isbn", "isbn" >>,
       << "isbn13", "isbn" >>, << "isbn10", "isbn" >> >>

\* A new ExtractionResult with these matches (year 0 stands for None).
ExtractionResult(matches) ==
    [year |-> 0, pages |-> None, volume |-> None, issue |-> None,
     series |-> None, place |-> None, doi |-> None, issn |-> None,
     isbn |-> None, matches |-> matches]

\* A variant of the filter that wants a confidence above the threshold.
QualifyingAbove(matches, match_field, min_confidence) ==
    SelectSeq(matches, LAMBDA m : m.field_name = match_field
                                  /\ m.confidence > min_confidence)

\* [m for m in result.matches
\*    if m.field_name == match_field and m.confidence >= self.min_confidence]
Qualifying(matches, match_field, min_confidence) ==
    SelectSeq(matches, LAMBDA m : m.field_name = match_field
                                  /\ m.confidence >= min_confidence)

\* max(matches, key=lambda m: m.confidence): the first of the maxima.
max_confidence(matches) ==
    matches[CHOOSE i \in 1..Len(matches) :
               \A j \in 1..Len(matches) :
                  /\ matches[j].confidence <= matches[i].confidence
                  /\ j < i => matches[j].confidence < matches[i].confidence]

\* A variant of the loop that assigns a result field also when it is set.
RECURSIVE SetBestOverwriting(_, _, _)
SetBestOverwriting(result, k, min_confidence) ==
    IF k > Len(field_map) THEN result
    ELSE LET matches == Qualifying(result.matches, field_map[k][1],
                                   min_confidence)
             value == max_confidence(matches).value
         IN  IF matches = << >>
             THEN SetBestOverwriting(result, k + 1, min_confidence)
             ELSE SetBestOverwriting(
                     [result EXCEPT ![field_map[k][2]] =
                         IF field_map[k][1] = "year" THEN int(value) ELSE value],
                     k + 1, min_confidence)

\* for match_field, result_field in field_map.items(), from entry k on
RECURSIVE SetBestFrom(_, _, _)
SetBestFrom(result, k, min_confidence) ==
    IF k > Len(field_map) THEN result
    ELSE LET match_field == field_map[k][1]
             result_field == field_map[k][2]
             matches == Qualifying(result.matches, match_field, min_confidence)
             value == max_confidence(matches).value
         IN  IF matches = << >>
             THEN SetBestFrom(result, k + 1, min_confidence)
             ELSE IF result[result_field] # ExtractionResult(<< >>)[result_field]
             THEN SetBestFrom(result, k + 1, min_confidence)
             ELSE IF match_field = "year" /\ value \notin IntStrings
             THEN SetBestFrom(result, k + 1, min_confidence)
             ELSE SetBestFrom(
                     [result EXCEPT ![result_field] =
                         IF match_field = "year" THEN int(value) ELSE value],
                     k + 1, min_confidence)

_set_best_values(result, min_confidence) == SetBestFrom(result, 1, min_confidence)

\* RuleBasedExtractor(min_confidence=...).extract(text, page_number)
extract_result(phrases, page_number, min_confidence) ==
    _set_best_values(ExtractionResult(extract(phrases, page_number)),
                     min_confidence)

\* min_confidence of the extractor: the default, and two higher ones
DefaultMinConfidence == 50

MinConfidences == {DefaultMinConfidence, 90, 100}

\* The texts given to extract(): up to MaxPhrases phrases of the vocabulary,
\* and one phrase more of the phrases that make the context of a year.
MaxPhrases == 2

ContextVocabulary ==
    {"2020", "(2019)", "©2021", "published", "Vol. IX", "page 12",
     "xxxxxxxxxxxxxxxxxxxxxxxxx"}

SeqsUpTo(S, n) == UNION {[1..k -> S] : k \in 0..n}

Texts ==
    SeqsUpTo(Vocabulary, MaxPhrases) \cup SeqsUpTo(ContextVocabulary, MaxPhrases + 1)

ExtractInit ==
    /\ record = BibliographyRecord("unknown")
    /\ document = [is_pdf |-> FALSE, document_type |-> "image", page_count |-> 1]
    /\ max_iterations = DefaultMaxIterations
    /\ iteration = 0
    /\ tried_running_headers = FALSE
    /\ tried_last_pages = FALSE
    /\ pc = "idle"
    /\ ppc = "extract"
    /\ pipe = NoPipe
    /\ calls = NoCalls
    /\ hist = NewHistory(record)
    /\ \E phrases \in Texts, page_number \in {1, 2},
          min_confidence \in MinConfidences :
          /\ page_number = 2 => min_confidence = DefaultMinConfidence
          /\ probe = [called |-> FALSE, phrases |-> phrases,
                      page_number |-> page_number,
                      min_confidence |-> min_confidence, matches |-> << >>,
                      result |-> ExtractionResult(<< >>)]

\* rule_based_extractor.extract(text, page_number)
ExtractCall ==
    /\ ppc = "extract"
    /\ ~probe.called
    /\ LET result == extract_result(probe.phrases, probe.page_number,
                                    probe.min_confidence)
       IN  probe' = [probe EXCEPT !.called = TRUE, !.matches = result.matches,
                                  !.result = result]
    /\ calls' = [calls EXCEPT !.rule = @ + 1]
    /\ UNCHANGED <<record, document, agentVars, pc, ppc, pipe, hist>>

ExtractSpec == ExtractInit /\ [][ExtractCall]_vars

-----------------------------------------------------------------------------
(* Merger.merge (core/merger.py).                                          *)

\* An ExtractionResult of the pattern matcher for one page.
RuleResult(page_number, matches) ==
    [page_number |-> page_number, matches |-> matches]

\* The Evidence made of a PatternMatch (the matcher stamps the page number
\* it was given on every match).
Evidence(match, page_number) ==
    [field_name |-> match.field_name, value |-> match.value,
     evidence_type |-> "pdf_text", page_number |-> page_number,
     confidence |-> match.confidence]

\* A variant of step 1 that goes through the pages from the last to the first.
RECURSIVE AllEvidenceLastPageFirst(_)
AllEvidenceLastPageFirst(rule_results) ==
    IF rule_results = << >> THEN << >>
    ELSE LET res == Head(rule_results)
         IN  AllEvidenceLastPageFirst(Tail(rule_results))
             \o [i \in 1..Len(res.matches) |->
                    Evidence(res.matches[i], res.page_number)]

\* Step 1 of merge: one Evidence per match, in page order then match order.
RECURSIVE AllEvidence(_)
AllEvidence(rule_results) ==
    IF rule_results = << >> THEN << >>
    ELSE LET res == Head(rule_results)
         IN  [i \in 1..Len(res.matches) |->
                 Evidence(res.matches[i], res.page_number)]
             \o AllEvidence(Tail(rule_results))

\* A variant of step 2 that keeps the last of the evidences of highest
\* confidence.
LastOfTheBest(all_evidence, field) ==
    IF \A i \in 1..Len(all_evidence) : all_evidence[i].field_name # field
    THEN 0
    ELSE CHOOSE i \in 1..Len(all_evidence) :
            /\ all_evidence[i].field_name = field
            /\ \A j \in 1..Len(all_evidence) :
                  all_evidence[j].field_name = field =>
                     \/ all_evidence[j].confidence < all_evidence[i].confidence
                     \/ /\ all_evidence[j].confidence = all_evidence[i].confidence
                        /\ j <= i

\* Step 2: max(evidences, key=confidence), the first of the maxima; 0 when
\* the field has no evidence.
best_rule_evidence(all_evidence, field) == BestFrom(all_evidence, field, 1, 0)

field_priority(field) ==
    CASE field \in {"doi", "issn", "isbn"} -> << "rule" >>
      [] field \in {"year", "volume", "issue", "page"} -> << "rule", "llm" >>
      [] field \in {"title", "container_title"} -> << "llm", "rule" >>
      [] field \in {"author", "abstract", "type"} -> << "llm" >>
      [] OTHER -> << "llm", "rule" >>

\* An LLMExtractionResult (year 0 stands for None).
LLMExtractionResult(title, author, type, container, publisher, year, vol, pg) ==
    [title |-> title, author |-> author, type |-> type,
     container_title |-> container, publisher |-> publisher,
     year |-> year, volume |-> vol, issue |-> None, page |-> pg,
     abstract |-> None, language |-> None]

LlmStringFields == {"title", "type", "container_title", "publisher", "volume",
                    "issue", "page", "abstract", "language"}

\* llm_result.to_dict().get(field) for a string field: to_dict() keeps the
\* truthy values only.
llm_data_get(llm, field) ==
    IF field \in LlmStringFields /\ Truthy(llm[field]) THEN llm[field] ELSE None

\* A variant of step 3 that asks the pattern matches first and the language
\* model second, whatever the priority list of the field says.
ResolveRuleFirst(priority, i, field, all_evidence, llm) ==
    IF best_rule_evidence(all_evidence, field) # 0
    THEN all_evidence[best_rule_evidence(all_evidence, field)].value
    ELSE llm_data_get(llm, field)

\* Step 3, for a string field: the first source of the priority list that
\* has the field; None when the field stays out of the mapping.
RECURSIVE ResolveFrom(_, _, _, _, _)
ResolveFrom(priority, i, field, all_evidence, llm) ==
    IF i > Len(priority) THEN None
    ELSE IF priority[i] = "rule" /\ best_rule_evidence(all_evidence, field) # 0
    THEN all_evidence[best_rule_evidence(all_evidence, field)].value
    ELSE IF priority[i] = "llm" /\ Truthy(llm_data_get(llm, field))
    THEN llm_data_get(llm, field)
    ELSE ResolveFrom(priority, i + 1, field, all_evidence, llm)

Resolve(field, all_evidence, llm) ==
    ResolveFrom(field_priority(field), 1, field, all_evidence, llm)

\* The value under the key "year": absent, the string of a pattern match, or
\* the integer of the language model.
NoYear == [kind |-> "absent", str |-> "", int |-> 0]

StrYear(str) == [kind |-> "str", str |-> str, int |-> 0]

IntYear(n) == [kind |-> "int", str |-> "", int |-> n]

\* Step 3 for "year" (to_dict() keeps a year that is truthy).
RECURSIVE ResolveYearFrom(_, _, _, _)
ResolveYearFrom(priority, i, all_evidence, llm) ==
    IF i > Len(priority) THEN NoYear
    ELSE IF priority[i] = "rule" /\ best_rule_evidence(all_evidence, "year") # 0
    THEN StrYear(all_evidence[best_rule_evidence(all_evidence, "year")].value)
    ELSE IF priority[i] = "llm" /\ llm.year # 0
    THEN IntYear(llm.year)
    ELSE ResolveYearFrom(priority, i + 1, all_evidence, llm)

\* The string keys of the merged mapping this model follows ("pages",
\* "place", "series", "isbn13" and "isbn10" are field names of pattern
\* matches, "abstract" and "language" keys of the language model's result;
\* none of them is a field of the record).
MergedStringFields ==
    StringFields \cup {"type", "pages", "place", "series", "isbn13", "isbn10",
                       "abstract", "language"}

\* final_data after step 3 and the loop over author, abstract and type
\* (None, NoYear, << >>: the key is absent).
Step3(all_evidence, llm) ==
    [f \in MergedStringFields \cup {"author", "year", "issued"} |->
        CASE f = "author" -> llm.author
          [] f = "year" ->
                ResolveYearFrom(field_priority("year"), 1, all_evidence, llm)
          [] f = "issued" -> NoIssued
          [] f \in {"abstract", "type"} /\ Truthy(llm_data_get(llm, f)) ->
                llm_data_get(llm, f)
          [] OTHER -> Resolve(f, all_evidence, llm)]

\* A variant of step 4 that deletes the year only when it was converted.
Step4KeepsUnconverted(final_data) ==
    IF final_data.year.kind = "int"
    THEN [final_data EXCEPT !.issued = DateParts(final_data.year.int),
                            !.year = NoYear]
    ELSE IF final_data.year.kind = "str" /\ final_data.year.str \in IntStrings
    THEN [final_data EXCEPT !.issued = DateParts(int(final_data.year.str)),
                            !.year = NoYear]
    ELSE final_data

\* Step 4: if "year" in final_data, issued = DateParts(year=int(year)) unless
\* int() raises, and the year is deleted.
Step4(final_data) ==
    IF final_data.year.kind = "absent" THEN final_data
    ELSE IF final_data.year.kind = "int"
    THEN [final_data EXCEPT !.issued = DateParts(final_data.year.int),
                            !.year = NoYear]
    ELSE IF final_data.year.str \in IntStrings
    THEN [final_data EXCEPT !.issued = DateParts(int(final_data.year.str)),
                            !.year = NoYear]
    ELSE [final_data EXCEPT !.year = NoYear]

\* merge: the mapping and the evidence list.
merge(rule_results, llm) ==
    LET all_evidence == AllEvidence(rule_results)
    IN  [data |-> Step4(Step3(all_evidence, llm)), evidence |-> all_evidence]

\* BibliographyRecord(id=..., evidence=all_evidence, **combined_data, ...):
\* keys that are no field of the record are ignored, absent fields take their
\* defaults, author dictionaries become Author objects.
NewRecord(data, evidence) ==
    [f \in DOMAIN BibliographyRecord("article") |->
        CASE f = "evidence" -> evidence
          [] f = "type" -> IF data.type # None THEN data.type ELSE "article"
          [] f = "author" -> [i \in 1..Len(data.author) |->
                                Author(data.author[i].family, data.author[i].given)]
          [] f \in StringFields \cup {"issued"} -> data[f]
          [] OTHER -> BibliographyRecord("article")[f]]

-----------------------------------------------------------------------------
(* Merger.merge called on its own, on per-page results of the pattern      *)
(* matcher and a result of the language model.                             *)

\* merge() is given the results of at most MaxPages pages
MaxPages == 2

\* A PatternMatch built by hand, as the tests build them.
Made(field_name, value, confidence) ==
    PatternMatch(field_name, value, 0, Len(value), confidence, None, 0)

\* Where the result of a page comes from: the pattern matcher run on the
\* text of the page, or matches built by hand.
PageOf(phrases, matches) == [phrases |-> phrases, matches |-> matches]

PageSources ==
    {PageOf(<< "(2019)" >>, << >>),
     PageOf(<< "published", "2020" >>, << >>),
     PageOf(<< "©2021", "Vol. IX" >>, << >>),
     PageOf(<< "pp. 123-145", "No. 3" >>, << >>),
     PageOf(<< "ISBN 978-3-16-148410-0", "10.1234/abc" >>, << >>),
     PageOf(<< "ISSN 1234-5678", "Vol. 10", "Paris" >>, << >>),
     PageOf(<< "xxxxxxxxxxxxxxxxxxxxxxxxx" >>, << >>),
     PageOf(<< >>, << Made("year", "2020", 90), Made("volume", "IX", 80) >>),
     PageOf(<< >>, << Made("year", "2021", 70),
                      Made("doi", "10.1234/rule.doi", 95) >>),
     PageOf(<< >>, << Made("year", "n.d.", 95), Made("title", "Rule Title", 60),
                      Made("publisher", "Rule Press", 60),
                      Made("type", "book", 60) >>)}

\* The ExtractionResult of page p.
ResultOf(source, p) ==
    RuleResult(p, IF source.matches = << >> THEN extract(source.phrases, p)
                  ELSE [k \in 1..Len(source.matches) |->
                           [source.matches[k] EXCEPT !.page_number = p]])

\* The results of the language model given to merge(): nothing; the one of
\* the Merger's test; one with every field; one with a year and pages only.
MergeLlmResults ==
    {LLMExtractionResult(None, << >>, None, None, None, 0, None, None),
     LLMExtractionResult("LLM Title", << [family |-> "LLM", given |-> "Author"] >>,
                         None, "LLM Journal", None, 0, None, None),
     [LLMExtractionResult("LLM Title", << [family |-> "LLM", given |-> "Author"] >>,
                          "article-journal", "LLM Journal", "LLM Press", 2018,
                          "7", "5-9")
         EXCEPT !.issue = "2", !.abstract = "An abstract.", !.language = "en"],
     LLMExtractionResult(None, << >>, None, None, None, 2018, None, "5-9")}

MergeInit ==
    /\ record = BibliographyRecord("unknown")
    /\ document = [is_pdf |-> TRUE, document_type |-> "text_pdf",
                   page_count |-> MaxPages]
    /\ max_iterations = DefaultMaxIterations
    /\ iteration = 0
    /\ tried_running_headers = FALSE
    /\ tried_last_pages = FALSE
    /\ pc = "idle"
    /\ ppc = "merge"
    /\ pipe = NoPipe
    /\ calls = NoCalls
    /\ hist = NewHistory(record)
    /\ \E sources \in SeqsUpTo(PageSources, MaxPages), llm \in MergeLlmResults :
          probe = [called |-> FALSE,
                   rule_results |-> [p \in 1..Len(sources) |->
                                        ResultOf(sources[p], p)],
                   llm |-> llm,
                   data |-> Step3(<< >>, llm), evidence |-> << >>]

\* merger.merge(rule_results, llm_result)
MergeCall ==
    /\ ppc = "merge"
    /\ ~probe.called
    /\ LET merged == merge(probe.rule_results, probe.llm)
       IN  probe' = [probe EXCEPT !.called = TRUE, !.data = merged.data,
                                  !.evidence = merged.evidence]
    /\ calls' = [calls EXCEPT !.merge = @ + 1]
    /\ UNCHANGED <<record, document, agentVars, pc, ppc, pipe, hist>>

MergeSpec == MergeInit /\ [][MergeCall]_vars

-----------------------------------------------------------------------------
(* ConfidenceScorer.score called on its own, for scorers built with and    *)
(* without thresholds.                                                     *)

\* The thresholds given to the constructor: none; those of the test (0.9,
\* 0.5); a needs_review threshold of 0.0; a confirmed threshold of 0.6.
ThresholdArguments ==
    {<< NoThreshold, NoThreshold >>, << Threshold(900000), Threshold(500000) >>,
     << NoThreshold, Threshold(0) >>, << Threshold(600000), NoThreshold >>}

\* The dictionaries given to score(): titles of three lengths (or none), no
\* author, a well-formed one or one without a family name, a year or none,
\* some of the other fields, an explicit document type or none.
ScoreRecords ==
    {[title |-> title, authors |-> authors, year |-> year,
      container_title |-> container_title, volume |-> volume, issue |-> None,
      pages |-> None, publisher |-> publisher, publisher_place |-> None,
      doi |-> None, issn |-> None, isbn |-> isbn,
      document_type |-> document_type] :
        title \in {None, "Abc", "A Long Enough Title"},
        authors \in {<< >>, << Author("Smith", "John") >>,
                     << Author(None, "John") >>},
        year \in {NoIssued, DateParts(2023)},
        container_title \in {None, "Journal"},
        volume \in {None, "7"},
        publisher \in {None, "Press"},
        isbn \in {None, "978-3-16-148410-0"},
        document_type \in {"", "article", "book"}}

ScoreInit ==
    /\ record = BibliographyRecord("unknown")
    /\ document = [is_pdf |-> FALSE, document_type |-> "image", page_count |-> 1]
    /\ max_iterations = DefaultMaxIterations
    /\ iteration = 0
    /\ tried_running_headers = FALSE
    /\ tried_last_pages = FALSE
    /\ pc = "idle"
    /\ ppc = "score"
    /\ pipe = NoPipe
    /\ calls = NoCalls
    /\ hist = NewHistory(record)
    /\ \E arguments \in ThresholdArguments, d \in ScoreRecords :
          probe = [called |-> FALSE, confirmed_threshold |-> arguments[1],
                   needs_review_threshold |-> arguments[2], d |-> d,
                   result |-> [overall_score |-> 0, status |-> "needs_review"]]

\* ConfidenceScorer(confirmed_threshold, needs_review_threshold).score(d)
ScoreCall ==
    /\ ppc = "score"
    /\ ~probe.called
    /\ probe' = [probe EXCEPT
                    !.called = TRUE,
                    !.result = score(ConfidenceScorer(probe.confirmed_threshold,
                                                      probe.needs_review_threshold),
                                     probe.d)]
    /\ UNCHANGED <<record, document, agentVars, pc, ppc, pipe, calls, hist>>

ScoreSpec == ScoreInit /\ [][ScoreCall]_vars

-----------------------------------------------------------------------------
(* WebSearchEnricher.enrich (enrichment/web_search.py).                    *)

\* pub["bib"] of the publication found (None: the key is absent).
Bib(pub_year, venue, volume, pages) ==
    [pub_year |-> pub_year, venue |-> venue, volume |-> volume, pages |-> pages]

\* What scholarly.search_single_pub does: it raises, finds nothing, or
\* returns a publication.
WebOutcomes ==
    {[kind |-> "raises", bib |-> Bib(None, None, None, None)],
     [kind |-> "nothing", bib |-> Bib(None, None, None, None)],
     [kind |-> "pub", bib |-> Bib("2021", "Web Journal", "12", "33-44")],
     [kind |-> "pub", bib |-> Bib("n.d.", "Web Journal", "12", None)],
     [kind |-> "pub", bib |-> Bib(None, "Web Journal", None, None)]}

\* enrich calls the search only for a record with a title.
Searches(r) == Truthy(r.title)

\* A variant that takes what the publication has, whatever the record holds.
EnrichOverwrites(r, web) ==
    LET bib == web.bib
        r1 == IF bib.pub_year \in IntStrings
              THEN [r EXCEPT !.issued = DateParts(int(bib.pub_year))] ELSE r
        r2 == IF bib.venue # None THEN [r1 EXCEPT !.container_title = bib.venue] ELSE r1
        r3 == IF bib.volume # None THEN [r2 EXCEPT !.volume = bib.volume] ELSE r2
        r4 == IF bib.pages # None THEN [r3 EXCEPT !.page = bib.pages] ELSE r3
    IN  IF ~Searches(r) \/ web.kind # "pub" THEN r ELSE r4

\* A variant that searches for a record without a title too.
EnrichWithoutTitle(r, web) ==
    LET bib == web.bib
        needYear == ~(r.issued.present /\ r.issued.year # 0) /\ bib.pub_year # None
        r1 == IF needYear THEN [r EXCEPT !.issued = DateParts(int(bib.pub_year))]
              ELSE r
        r2 == IF ~Truthy(r1.container_title) /\ bib.venue # None
              THEN [r1 EXCEPT !.container_title = bib.venue] ELSE r1
        r3 == IF ~Truthy(r2.volume) /\ bib.volume # None
              THEN [r2 EXCEPT !.volume = bib.volume] ELSE r2
        r4 == IF ~Truthy(r3.page) /\ bib.pages # None
              THEN [r3 EXCEPT !.page = bib.pages] ELSE r3
    IN  IF web.kind # "pub" THEN r
        ELSE IF needYear /\ bib.pub_year \notin IntStrings THEN r
        ELSE r4

enrich(r, web) ==
    LET bib == web.bib
        needYear == ~(r.issued.present /\ r.issued.year # 0) /\ bib.pub_year # None
        r1 == IF needYear THEN [r EXCEPT !.issued = DateParts(int(bib.pub_year))]
              ELSE r
        r2 == IF ~Truthy(r1.container_title) /\ bib.venue # None
              THEN [r1 EXCEPT !.container_title = bib.venue] ELSE r1
        r3 == IF ~Truthy(r2.volume) /\ bib.volume # None
              THEN [r2 EXCEPT !.volume = bib.volume] ELSE r2
        r4 == IF ~Truthy(r3.page) /\ bib.pages # None
              THEN [r3 EXCEPT !.page = bib.pages] ELSE r3
    IN  IF ~Searches(r) THEN r
        ELSE IF web.kind # "pub" THEN r
        ELSE IF needYear /\ bib.pub_year \notin IntStrings THEN r
        ELSE r4

\* enrich() called on its own, on records with every combination of absent,
\* empty and present values of the fields it reads.
EnrichRecords ==
    {[BibliographyRecord("article") EXCEPT
         !.title = f[1], !.container_title = f[2], !.volume = f[3],
         !.page = f[4], !.publisher = "Old Press",
         !.author = author, !.issued = issued] :
       f \in [1..4 -> ProbeStrings],
       author \in {<< >>, << Author("Doe", "J.") >>},
       issued \in {NoIssued, DateParts(2023), DateParts(0)}}

\* The answers of the search: those of WebOutcomes, and a publication whose
\* venue is the empty string.
EnrichOutcomes ==
    WebOutcomes \cup {[kind |-> "pub", bib |-> Bib("2019", "", "12", "33-44")]}

\* An exception is raised inside the try block of enrich: by the search, or
\* by int() on a pub_year that is needed and is not a number.
RaisesInTry(r, web) ==
    \/ web.kind = "raises"
    \/ /\ web.kind = "pub"
       /\ ~(r.issued.present /\ r.issued.year # 0)
       /\ web.bib.pub_year # None
       /\ web.bib.pub_year \notin IntStrings

EnrichInit ==
    /\ record \in EnrichRecords
    /\ document = [is_pdf |-> FALSE, document_type |-> "image", page_count |-> 1]
    /\ max_iterations = DefaultMaxIterations
    /\ iteration = 0
    /\ tried_running_headers = FALSE
    /\ tried_last_pages = FALSE
    /\ pc = "idle"
    /\ ppc = "enrich"
    /\ pipe = NoPipe
    /\ calls = NoCalls
    /\ hist = NewHistory(record)
    /\ probe = [called |-> FALSE, result |-> FALSE, web |-> "none",
                bib |-> Bib(None, None, None, None), caught |-> FALSE]

\* WebSearchEnricher().enrich(record).  The except clause catches what is
\* raised inside the try block, so the call returns in every case; probe
\* keeps the answer of the search and whether an exception was caught.
EnrichCall ==
    /\ ppc = "enrich"
    /\ ~probe.called
    /\ \E web \in EnrichOutcomes :
          /\ record' = enrich(record, web)
          /\ calls' = [calls EXCEPT !.search = @ + (IF Searches(record) THEN 1 ELSE 0)]
          /\ probe' = [called |-> TRUE, result |-> TRUE,
                       web |-> IF Searches(record) THEN web.kind ELSE "none",
                       bib |-> IF Searches(record) THEN web.bib
                               ELSE Bib(None, None, None, None),
                       caught |-> Searches(record) /\ RaisesInTry(record, web)]
    /\ pc' = "idle"
    /\ UNCHANGED <<document, agentVars, ppc, pipe, hist>>

EnrichSpec == EnrichInit /\ [][EnrichCall]_vars

-----------------------------------------------------------------------------
(* Pipeline.run (core/pipeline.py).                                        *)

\* Document.get_page_indices
get_page_indices(doc) ==
    LET total == doc.page_count
    IN  IF total = 0 THEN << >>
        ELSE IF doc.document_type = "text_pdf"
        THEN << 1 >> \o (IF total >= 2 THEN << 2 >> ELSE << >>)
                     \o (IF total >= 3 THEN << 3 >> ELSE << >>)
                     \o (IF total >= 4 THEN << total >> ELSE << >>)
        ELSE << 1 >> \o (IF total >= 2 THEN << 2 >> ELSE << >>)
                     \o (IF total >= 3 THEN << total >> ELSE << >>)

\* What happens to one page in phase 1: the text extraction, the rendering
\* or the OCR raises; the text got is empty, or blank; the pattern matcher
\* raises on the text; the pattern matcher returns its matches.
Phase1Outcomes(doc) ==
    (IF doc.document_type = "text_pdf" THEN {"extract_raises"}
     ELSE {"render_raises", "ocr_raises"})
    \cup {"empty", "blank", "rule_raises", "text"}

\* page_text, when the text extraction or the OCR returned.
RawText(p, o) ==
    CASE o = "empty" -> ""
      [] o = "blank" -> " "
      [] OTHER -> PageText(p)

\* str.strip on the texts of this model
strip(text) == IF text \in BlankStrings THEN "" ELSE text

\* A variant that keeps every text but the empty one.
KeepsTextUnstripped(text) == text # ""

\* The test of line 72: if page_text.strip()
KeepsText(text) == strip(text) # ""

\* The matches the pattern matcher finds on the pages of the document.
PageMatches(p) ==
    CASE p = 1 -> << Match("year", "2020", 90) >>
      [] p = 2 -> << Match("volume", "IX", 80), Match("pages", "1-20", 90) >>
      [] OTHER -> << >>

Raised1(o) == o \in {"extract_raises", "render_raises", "ocr_raises"}

\* Phase 1, from page i of `pages` on, with acc what it has gathered so far.
RECURSIVE Phase1(_, _, _, _, _)
Phase1(doc, pages, outcome, i, acc) ==
    IF i > Len(pages) THEN acc
    ELSE LET p == pages[i]
             o == outcome[i]
             scanned == doc.document_type # "text_pdf"
             acc1 == [acc EXCEPT
                        !.render = IF scanned THEN Append(@, p) ELSE @,
                        !.ocr = @ \/ (scanned /\ o # "render_raises")]
             kept == ~Raised1(o) /\ KeepsText(RawText(p, o))
             acc2 == IF kept
                     THEN [acc1 EXCEPT !.page_texts = Append(@, RawText(p, o)),
                                       !.rule = @ + 1]
                     ELSE acc1
             acc3 == IF kept /\ o # "rule_raises"
                     THEN [acc2 EXCEPT !.rule_results =
                                          Append(@, RuleResult(p, PageMatches(p)))]
                     ELSE acc2
         IN  Phase1(doc, pages, outcome, i + 1, acc3)

NoPhase1 == [page_texts |-> << >>, rule_results |-> << >>, render |-> << >>,
             ocr |-> FALSE, rule |-> 0]

\* What the language model returns for the full text in phase 2.
LlmResults ==
    {LLMExtractionResult(None, << >>, None, None, None, 0, None, None),
     LLMExtractionResult("A Test Paper", << [family |-> "Doe", given |-> "J."] >>,
                         "article-journal", "Journal of Testing", None, 2021,
                         "7", None),
     LLMExtractionResult("A Test Paper", << [family |-> "Doe", given |-> "J."] >>,
                         "book", None, "Old Press", 0, None, None)}

PipeLlmOutcomes ==
    {[raises |-> TRUE, result |-> LLMExtractionResult(None, << >>, None, None,
                                                      None, 0, None, None)]}
    \cup [raises : {FALSE}, result : LlmResults]

\* return BibliographyRecord(id=record_id, status=FAILED, type="unknown")
FailedRecord == [BibliographyRecord("unknown") EXCEPT !.status = "failed"]

\* Pipeline.run up to the start of agent.run(): phase 1 on the selected
\* pages, the structural-failure return, the language-model extraction, the
\* merge, the creation of the record and of the agent.
PipelineRun ==
    /\ ppc = "start"
    /\ \E outcome \in [1..Len(get_page_indices(document)) -> Phase1Outcomes(document)],
          llm \in PipeLlmOutcomes :
          LET pages == get_page_indices(document)
              ph == Phase1(document, pages, outcome, 1, NoPhase1)
              c1 == [calls EXCEPT !.render = @ \o ph.render, !.ocr = @ \/ ph.ocr,
                                  !.rule = @ + ph.rule]
              c2 == [c1 EXCEPT !.llm = @ + 1]
              c3 == [c2 EXCEPT !.merge = @ + 1]
              seen == [pipe EXCEPT
                         !.selected = Len(pages),
                         !.nonblank = Cardinality({i \in 1..Len(pages) :
                                          outcome[i] \in {"rule_raises", "text"}}),
                         !.texts = Len(ph.page_texts)]
              merged == merge(ph.rule_results, llm.result)
              r == NewRecord(merged.data, merged.evidence)
          IN  IF ph.page_texts = << >>
              THEN /\ record' = FailedRecord
                   /\ ppc' = "returned"
                   /\ pipe' = seen
                   /\ calls' = c1
                   /\ UNCHANGED <<agentVars, pc, hist>>
              ELSE IF llm.raises
              THEN /\ ppc' = "raised"
                   /\ pipe' = [seen EXCEPT !.raised_in = "llm"]
                   /\ calls' = c2
                   /\ UNCHANGED <<record, agentVars, pc, hist>>
              ELSE /\ record' = r
                   /\ max_iterations' = DefaultMaxIterations
                   /\ iteration' = 0
                   /\ tried_running_headers' = FALSE
                   /\ tried_last_pages' = FALSE
                   /\ pc' = "loop"
                   /\ ppc' = "agent"
                   /\ pipe' = seen
                   /\ calls' = c3
                   /\ hist' = StartRun(NewHistory(r), r, c3, FALSE, FALSE)
    /\ UNCHANGED <<document, probe>>

\* An exception that left agent.run() leaves Pipeline.run().
PipelineRaise ==
    /\ ppc = "agent"
    /\ pc = "raised"
    /\ ppc' = "raised"
    /\ pipe' = [pipe EXCEPT !.raised_in = "agent"]
    /\ UNCHANGED <<record, document, agentVars, pc, calls, hist, probe>>

\* Phase 4: the web search enrichment of the record agent.run() returned.
PipelineEnrich ==
    /\ ppc = "agent"
    /\ pc = "idle"
    /\ \E web \in WebOutcomes :
          /\ record' = enrich(record, web)
          /\ calls' = [calls EXCEPT !.search = @ + (IF Searches(record) THEN 1 ELSE 0)]
    /\ ppc' = "enriched"
    /\ pipe' = [pipe EXCEPT !.after_agent = << record >>]
    /\ UNCHANGED <<document, agentVars, pc, hist, probe>>

\* The final determine_status() of Pipeline.run, and its return.
PipelineFinalize ==
    /\ ppc = "enriched"
    /\ record' = determine_status(record)
    /\ ppc' = "returned"
    /\ UNCHANGED <<document, agentVars, pc, pipe, calls, hist, probe>>

\* The documents given to Pipeline.run.
PipeDocuments ==
    {[is_pdf |-> TRUE, document_type |-> "scanned_pdf", page_count |-> 5],
     [is_pdf |-> TRUE, document_type |-> "text_pdf", page_count |-> 10],
     [is_pdf |-> TRUE, document_type |-> "scanned_pdf", page_count |-> 0],
     [is_pdf |-> TRUE, document_type |-> "text_pdf", page_count |-> 1],
     [is_pdf |-> FALSE, document_type |-> "image", page_count |-> 1]}

PipelineInit ==
    /\ document \in PipeDocuments
    /\ record = BibliographyRecord("unknown")
    /\ max_iterations = DefaultMaxIterations
    /\ iteration = 0
    /\ tried_running_headers = FALSE
    /\ tried_last_pages = FALSE
    /\ pc = "idle"
    /\ ppc = "start"
    /\ pipe = NoPipe
    /\ calls = NoCalls
    /\ hist = NewHistory(record)
    /\ probe = NoProbe

PipelineNext ==
    \/ PipelineRun
    \/ AgentIterate
    \/ AgentFinish
    \/ PipelineRaise
    \/ PipelineEnrich
    \/ PipelineFinalize

PipelineSpec == PipelineInit /\ [][PipelineNext]_vars

-----------------------------------------------------------------------------
(* zoterosync (zoterosync/sync.py, client.py, db.py): incremental_sync and *)
(* full_clone against a remote Zotero library that other clients modify    *)
(* while the sync is under way.  The state is kept in probe: the remote    *)
(* library, the local database, and the local variables of the sync call.  *)
(* A version 0 in a table stands for "no such object".                     *)

\* The remote library version is at most MaxVersion, and incremental_sync is
\* called at most MaxSyncs times.
MaxVersion == 3
MaxSyncs == 2

ItemKeys == {"A1", "A2"}
CollectionKeys == {"C1"}

\* get_last_version returns None: no row for the library in sync_state.
NoVersion == -1

NoObjects(keys) == [k \in keys |-> 0]

\* The remote library: its version, the version of each object (0: never
\* created), and the version at which each object was deleted (0: not
\* deleted).  A deleted key is not used again.
NewLibrary ==
    [library_version |-> 0,
     items |-> NoObjects(ItemKeys), collections |-> NoObjects(CollectionKeys),
     deleted |-> [items |-> NoObjects(ItemKeys),
                  collections |-> NoObjects(CollectionKeys)]]

\* ZoteroDB on a new file: empty tables.
NewDB ==
    [items |-> NoObjects(ItemKeys), collections |-> NoObjects(CollectionKeys),
     last_version |-> NoVersion]

\* The objects of a kind that exist in the library, with their versions.
Existing(lib, kind) ==
    [k \in DOMAIN lib[kind] |->
        IF lib.deleted[kind][k] = 0 THEN lib[kind][k] ELSE 0]

\* client.fetch_all_items() / fetch_all_collections()
fetch_all(lib, kind) == Existing(lib, kind)

\* client.fetch_items_since(version) / fetch_collections_since(version):
\* the objects whose version is above `version`
fetch_since(lib, kind, version) ==
    [k \in DOMAIN lib[kind] |->
        IF Existing(lib, kind)[k] > version THEN lib[kind][k] ELSE 0]

\* client.fetch_deleted_since(version): the keys deleted after `version`
fetch_deleted_since(lib, version) ==
    [items |-> {k \in ItemKeys : lib.deleted.items[k] > version},
     collections |-> {k \in CollectionKeys : lib.deleted.collections[k] > version}]

\* client.get_library_version()
get_library_version(lib) == lib.library_version

\* db.upsert_items(items) / db.upsert_collections(collections)
upsert(table, objects) ==
    [k \in DOMAIN table |-> IF objects[k] # 0 THEN objects[k] ELSE table[k]]

\* db.delete_items(keys) / db.delete_collections(keys)
delete(table, keys) == [k \in DOMAIN table |-> IF k \in keys THEN 0 ELSE table[k]]

NothingDeleted == [items |-> {}, collections |-> {}]

\* at: the position of the sync call; last_version, items, collections,
\* deleted, library_version: its local variables; syncs: the calls of
\* incremental_sync that have returned.
ZoteroState(lib, db, at, last_version, items, collections, deleted, library_version, syncs) ==
    [called |-> syncs > 0, lib |-> lib, db |-> db, at |-> at,
     last_version |-> last_version, items |-> items, collections |-> collections,
     deleted |-> deleted, library_version |-> library_version, syncs |-> syncs]

ZoteroInit ==
    /\ record = BibliographyRecord("unknown")
    /\ document = [is_pdf |-> FALSE, document_type |-> "image", page_count |-> 1]
    /\ max_iterations = DefaultMaxIterations
    /\ iteration = 0
    /\ tried_running_headers = FALSE
    /\ tried_last_pages = FALSE
    /\ pc = "idle"
    /\ ppc = "zotero"
    /\ pipe = NoPipe
    /\ calls = NoCalls
    /\ hist = NewHistory(record)
    /\ probe = ZoteroState(NewLibrary, NewDB, "idle", NoVersion,
                           NoObjects(ItemKeys), NoObjects(CollectionKeys),
                           NothingDeleted, 0, 0)

\* A step of the Zotero model: only probe changes.
ZoteroStep(next) ==
    /\ ppc = "zotero"
    /\ probe' = next
    /\ UNCHANGED <<record, document, agentVars, pc, ppc, pipe, calls, hist>>

ObjectKinds == {"items", "collections"}

\* Another client writes an item or a collection (creates it, or modifies
\* it): the library version goes up and becomes the version of the object.
RemoteWrite ==
    /\ ppc = "zotero"
    /\ probe.lib.library_version < MaxVersion
    /\ \E kind \in ObjectKinds :
          \E k \in DOMAIN probe.lib[kind] :
             /\ probe.lib.deleted[kind][k] = 0
             /\ LET v == probe.lib.library_version + 1
                IN  ZoteroStep([probe EXCEPT !.lib.library_version = v,
                                             !.lib[kind][k] = v])

\* Another client deletes an item or a collection.
RemoteDelete ==
    /\ ppc = "zotero"
    /\ probe.lib.library_version < MaxVersion
    /\ \E kind \in ObjectKinds :
          \E k \in DOMAIN probe.lib[kind] :
             /\ Existing(probe.lib, kind)[k] # 0
             /\ LET v == probe.lib.library_version + 1
                IN  ZoteroStep([probe EXCEPT !.lib.library_version = v,
                                             !.lib.deleted[kind][k] = v])

\* incremental_sync is called: it reads last_version, and goes on to a full
\* clone when there is none.
SyncStart ==
    /\ ppc = "zotero"
    /\ probe.at = "idle"
    /\ probe.syncs < MaxSyncs
    /\ ZoteroStep([probe EXCEPT
                      !.last_version = probe.db.last_version,
                      !.at = IF probe.db.last_version = NoVersion
                             THEN "clone_items" ELSE "sync_items"])

\* full_clone: items = client.fetch_all_items()
CloneFetchItems ==
    /\ ppc = "zotero"
    /\ probe.at = "clone_items"
    /\ ZoteroStep([probe EXCEPT !.items = fetch_all(probe.lib, "items"),
                                !.at = "clone_collections"])

\* full_clone: collections = client.fetch_all_collections()
CloneFetchCollections ==
    /\ ppc = "zotero"
    /\ probe.at = "clone_collections"
    /\ ZoteroStep([probe EXCEPT
                      !.collections = fetch_all(probe.lib, "collections"),
                      !.at = "clone_version"])

\* full_clone: library_version = client.get_library_version()
CloneGetVersion ==
    /\ ppc = "zotero"
    /\ probe.at = "clone_version"
    /\ ZoteroStep([probe EXCEPT
                      !.library_version = get_library_version(probe.lib),
                      !.at = "clone_store"])

\* full_clone: upsert_items, upsert_collections, set_last_version; return
CloneStore ==
    /\ ppc = "zotero"
    /\ probe.at = "clone_store"
    /\ ZoteroStep([probe EXCEPT
                      !.db.items = upsert(@, probe.items),
                      !.db.collections = upsert(@, probe.collections),
                      !.db.last_version = probe.library_version,
                      !.at = "idle",
                      !.syncs = @ + 1,
                      !.called = TRUE])

\* incremental_sync: new_items = client.fetch_items_since(last_version)
SyncFetchItems ==
    /\ ppc = "zotero"
    /\ probe.at = "sync_items"
    /\ ZoteroStep([probe EXCEPT
                      !.items = fetch_since(probe.lib, "items", probe.last_version),
                      !.at = "sync_collections"])

\* incremental_sync: new_collections = client.fetch_collections_since(...)
SyncFetchCollections ==
    /\ ppc = "zotero"
    /\ probe.at = "sync_collections"
    /\ ZoteroStep([probe EXCEPT
                      !.collections = fetch_since(probe.lib, "collections",
                                                  probe.last_version),
                      !.at = "sync_deleted"])

\* incremental_sync: deleted = client.fetch_deleted_since(last_version)
SyncFetchDeleted ==
    /\ ppc = "zotero"
    /\ probe.at = "sync_deleted"
    /\ ZoteroStep([probe EXCEPT
                      !.deleted = fetch_deleted_since(probe.lib, probe.last_version),
                      !.at = "sync_version"])

\* incremental_sync: library_version = client.get_library_version()
SyncGetVersion ==
    /\ ppc = "zotero"
    /\ probe.at = "sync_version"
    /\ ZoteroStep([probe EXCEPT
                      !.library_version = get_library_version(probe.lib),
                      !.at = "sync_store"])

\* incremental_sync: upsert_items, upsert_collections, delete_items,
\* delete_collections, set_last_version; return
SyncStore ==
    /\ ppc = "zotero"
    /\ probe.at = "sync_store"
    /\ ZoteroStep([probe EXCEPT
                      !.db.items = delete(upsert(@, probe.items), probe.deleted.items),
                      !.db.collections = delete(upsert(@, probe.collections),
                                                probe.deleted.collections),
                      !.db.last_version = probe.library_version,
                      !.at = "idle",
                      !.syncs = @ + 1,
                      !.called = TRUE])

ZoteroNext ==
    \/ RemoteWrite
    \/ RemoteDelete
    \/ SyncStart
    \/ CloneFetchItems
    \/ CloneFetchCollections
    \/ CloneGetVersion
    \/ CloneStore
    \/ SyncFetchItems
    \/ SyncFetchCollections
    \/ SyncFetchDeleted
    \/ SyncGetVersion
    \/ SyncStore

ZoteroSpec == ZoteroInit /\ [][ZoteroNext]_vars

-----------------------------------------------------------------------------
(* Properties of the Expansion Agent.                                      *)

\* Completeness of a record for its type, as the specification words it.
CompleteForType(r) ==
    LET needed == CASE r.type = "article-journal" ->
                         {"title", "author", "issued", "container_title",
                          "page", "volume"}
                    [] r.type = "book" ->
                         {"title", "author", "issued", "publisher",
                          "publisher_place"}
                    [] OTHER -> {"title", "author", "issued"}
    IN  \A f \in needed : Present(r, f)

\* run() has returned (and has not been called again).
Returned == pc = "idle" /\ hist.runs >= 1

\* C1: over all loop iterations and all run() calls of an agent, the
\* running-header action and the publication-info action are each executed
\* at most once: the tried flag of an action is set exactly when the action
\* has been executed (whatever it did), and an action is never selected in a
\* loop body that started with its flag set.
C1_EachActionAtMostOnce ==
    /\ hist.execs_rh <= 1
    /\ hist.execs_pi <= 1
    /\ tried_running_headers <=> hist.execs_rh = 1
    /\ tried_last_pages <=> hist.execs_pi = 1
    /\ hist.last.chosen = "running_headers" => ~hist.last.tried_rh
    /\ hist.last.chosen = "publication_info" => ~hist.last.tried_lp

\* In a second run() call, a loop body met an article-journal record still
\* lacking its page, on a document long enough for the running-header scan,
\* with the running-header action already tried: the other action ran.
C1_Witness ==
    /\ hist.runs = 2
    /\ hist.last.chosen = "publication_info"
    /\ hist.last.tried_rh
    /\ hist.last.before.type = "article-journal"
    /\ ~Present(hist.last.before, "page")
    /\ document.is_pdf /\ document.page_count >= 5

\* C2: the loop of run() is left only when the record is complete, the
\* iteration counter has reached max_iterations, or no eligible action
\* remains; an action that changed nothing does not stop it.
C2_LoopLeftOnlyWhenDone ==
    pc = "final" =>
        \/ _is_complete(record)
        \/ iteration >= max_iterations
        \/ ChooseAction(record, tried_running_headers, tried_last_pages) = "none"

\* C3: a run() call that starts on a record complete for its type executes
\* no action: nothing is rendered, the OCR, the pattern matcher and the
\* language model are not called, no tried flag is set, and the record keeps
\* every field but status and confidence, which the return recomputes.
C3_CompleteRecordUntouched ==
    (hist.runs >= 1 /\ CompleteForType(hist.rec0)) =>
        /\ calls = hist.calls0
        /\ <<tried_running_headers, tried_last_pages>> = hist.tried0
        /\ hist.last.chosen \in {"start", "complete"}
        /\ [record EXCEPT !.status = hist.rec0.status,
                          !.confidence = hist.rec0.confidence] = hist.rec0
        /\ Returned => record = determine_status(hist.rec0)

\* Two run() calls have returned on an article-journal record that was
\* complete from the start but has no publisher (the publication-info action
\* would otherwise be eligible), each after one loop body.
C3_Witness ==
    /\ hist.runs = 2 /\ hist.returns = 2
    /\ hist.bodies = 2 /\ hist.run_bodies = 1
    /\ CompleteForType(hist.first)
    /\ hist.first.type = "article-journal"
    /\ ~Present(hist.first, "publisher")
    /\ document.is_pdf /\ document.page_count = 10

\* C4: the loop body of run() executes at most max_iterations times; while
\* run() is in its loop it can always take a step and has not yet determined
\* the status; when it has returned, the status was determined exactly once
\* in that call, and status and confidence are those of the record's fields
\* as they are (so after the agent's last mutation).
C4_BoundedThenFinalized ==
    /\ hist.run_bodies <= max_iterations
    /\ hist.bodies <= max_iterations
    /\ pc \in {"loop", "final"} =>
          /\ hist.status_calls = 0
          /\ ENABLED (AgentIterate \/ AgentFinish)
    /\ Returned =>
          /\ hist.status_calls = 1
          /\ record = determine_status(record)

\* run() returned after max_iterations = 2 loop bodies, the last of which
\* changed the record.
C4_Witness ==
    /\ Returned
    /\ hist.returns = 1
    /\ max_iterations = 2
    /\ hist.run_bodies = 2
    /\ hist.last.changed

\* Scenario D: the agent was built on an article-journal record with title,
\* author, issued date and container title but neither page nor volume, for
\* a 10-page PDF.
ScenarioD ==
    /\ hist.first.type = "article-journal"
    /\ \A f \in {"title", "author", "issued", "container_title"} :
          Present(hist.first, f)
    /\ ~Present(hist.first, "page") /\ ~Present(hist.first, "volume")
    /\ document.is_pdf /\ document.page_count = 10

\* The values of the matches of a field with the highest confidence.
BestValues(matches, field) ==
    {matches[i].value : i \in
        {i \in 1..Len(matches) :
            /\ matches[i].field_name = field
            /\ \A j \in 1..Len(matches) :
                  matches[j].field_name = field
                     => matches[j].confidence <= matches[i].confidence}}

\* C5: in scenario D, once the running-header scan has yielded a page-range
\* match and a volume match, page and volume hold best-match values, no
\* other bibliographic field has changed, the publication-info action has
\* not been executed, and the running-header action has been executed once
\* (in later run() calls too).
C5_ScenarioDGainsPageAndVolume ==
    (/\ ScenarioD
     /\ hist.headers.scanned
     /\ BestValues(hist.headers.matches, "pages") # {}
     /\ BestValues(hist.headers.matches, "volume") # {}) =>
        /\ record.page \in BestValues(hist.headers.matches, "pages")
        /\ record.volume \in BestValues(hist.headers.matches, "volume")
        /\ \A f \in BibFields \ {"page", "volume"} : record[f] = hist.first[f]
        /\ hist.execs_pi = 0
        /\ hist.execs_rh = 1

\* Scenario D with a record that has no publisher: two run() calls have
\* returned, the header scan met matches of differing confidence and the
\* record holds "123-145" and "10".
C5_Witness ==
    /\ ScenarioD
    /\ ~Present(hist.first, "publisher")
    /\ hist.runs = 2 /\ hist.returns = 2
    /\ hist.headers.scanned
    /\ Len(hist.headers.matches) > 2
    /\ record.page = "123-145" /\ record.volume = "10"

\* The record's fields as a dictionary for the ConfidenceScorer, under the
\* scorer's key names, with document_type `dt`.
ScorerInput(r, dt) ==
    [title |-> r.title, authors |-> r.author, year |-> r.issued,
     container_title |-> r.container_title, volume |-> r.volume,
     issue |-> r.issue, pages |-> r.page, publisher |-> r.publisher,
     publisher_place |-> r.publisher_place, doi |-> r.doi, issn |-> r.issn,
     isbn |-> r.isbn, document_type |-> dt]

\* The statuses the ConfidenceScorer gives the record, with the
\* document_type left out or taken from the record's type.
FullScorerStatuses(r) ==
    {score(ConfidenceScorer(NoThreshold, NoThreshold), ScorerInput(r, dt)).status :
        dt \in {"", r.type}}

\* C8 (as the specification states it): the status of the record run()
\* returns is the one the category-weighted ConfidenceScorer (thresholds
\* 0.75 / 0.40) gives to the record's fields.
C8_FinalStatusIsFullScorer ==
    Returned => record.status \in FullScorerStatuses(record)

\* C8 (amended): the status and confidence of the record run() returns are
\* those of the fixed-weight calculation over the record's final fields:
\* 0.6 * required/3 + 0.25 * structure/4 + 0.15 * publication/2, rounded to
\* two decimals, confirmed from 0.80, needs_review from 0.40, else failed.
C8_FinalStatusIsSimple ==
    Returned =>
        LET c == Round2(Count(record, {"title", "author", "issued"}),
                        Count(record, {"container_title", "volume", "issue", "page"}),
                        Count(record, {"publisher", "publisher_place"}))
        IN  /\ record.confidence = c
            /\ record.status = IF c >= 80 THEN "confirmed"
                               ELSE IF c >= 40 THEN "needs_review"
                               ELSE "failed"

\* run() returned, after an action changed the record, a record with status
\* confirmed, to which the ConfidenceScorer gives another status.
C8_Witness ==
    /\ Returned
    /\ ~SameBib(record, hist.first)
    /\ record.confidence >= 80
    /\ record.status = "confirmed"
    /\ record.status \notin FullScorerStatuses(record)

\* C10: _is_complete() is true of an article-journal record iff title,
\* author, issued, container_title, page and volume are all non-empty; of a
\* book record iff title, author, issued, publisher and publisher_place are;
\* of a record of any other type iff title, author and issued are.
C10_CompletenessByType ==
    probe.called =>
        LET has(f) == CASE f = "author" -> Len(record.author) > 0
                        [] f = "issued" -> record.issued # NoIssued
                        [] OTHER -> record[f] \notin {None, ""}
        IN  probe.result <=>
              IF record.type = "article-journal"
              THEN has("title") /\ has("author") /\ has("issued")
                   /\ has("container_title") /\ has("page") /\ has("volume")
              ELSE IF record.type = "book"
              THEN has("title") /\ has("author") /\ has("issued")
                   /\ has("publisher") /\ has("publisher_place")
              ELSE has("title") /\ has("author") /\ has("issued")

\* _is_complete() returned True for an article-journal record without
\* publisher and publisher_place.
C10_Witness ==
    /\ probe.called /\ probe.result
    /\ record.type = "article-journal"
    /\ record.publisher = None /\ record.publisher_place = ""

-----------------------------------------------------------------------------
(* Properties of Pipeline.run.                                             *)

\* C6: no exception raised by a collaborator inside an expansion action
\* leaves ExpansionAgent.run() and then Pipeline.run().
C6_NoExceptionLeavesTheRun ==
    ~(pc = "raised" /\ ppc = "raised" /\ pipe.raised_in = "agent")

\* C7: when no selected page yields non-blank text, Pipeline.run() has
\* returned a record with status failed, no bibliographic field and no
\* evidence, and has called neither the language model, the Merger, the
\* Expansion Agent nor the web search.
C7_StructuralFailure ==
    (ppc # "start" /\ pipe.nonblank = 0) =>
        /\ ppc = "returned"
        /\ record.status = "failed"
        /\ \A f \in BibFields \ {"type"} : ~Present(record, f)
        /\ record.evidence = << >>
        /\ calls.llm = 0 /\ calls.merge = 0 /\ calls.search = 0
        /\ hist.runs = 0 /\ hist.bodies = 0

\* Pipeline.run() returned for a document of which three pages were
\* selected and rendered, the OCR was called, and no page gave non-blank
\* text.
C7_Witness ==
    /\ ppc = "returned"
    /\ pipe.selected = 3 /\ pipe.nonblank = 0
    /\ Len(calls.render) = 3 /\ calls.ocr

\* C9 (as the specification states it): once the agent's final status
\* determination has set the status of the record, no later stage of
\* Pipeline.run() changes a bibliographic field of it.
C9_NoFieldChangesAfterAgentStatus ==
    pipe.after_agent # << >> => SameBib(record, pipe.after_agent[1])

\* C9 (amended): in Pipeline.run() the record is populated by one merge,
\* patched by one agent run, whose status determination is not the last
\* word: the web enrichment may still fill issued, container_title, volume
\* and page where the agent left them empty (and nothing else), and the
\* record returned carries the status and confidence determined from its
\* fields after that enrichment.
C9_FinalizedAfterEnrichment ==
    (ppc = "returned" /\ pipe.after_agent # << >>) =>
        LET a == pipe.after_agent[1]
        IN  /\ calls.merge = 1 /\ hist.runs = 1 /\ hist.returns = 1
            /\ calls.search <= 1
            /\ a = determine_status(a)
            /\ \A f \in BibFields :
                  record[f] # a[f] =>
                     /\ f \in {"issued", "container_title", "volume", "page"}
                     /\ ~Present(a, f)
            /\ record.evidence = a.evidence
            /\ record = determine_status(record)

\* Pipeline.run() returned a record in which the web enrichment filled a
\* field after the agent's status determination, with another status than
\* the agent had set.
C9_Witness ==
    /\ ppc = "returned"
    /\ pipe.after_agent # << >>
    /\ ~SameBib(record, pipe.after_agent[1])
    /\ record.status # pipe.after_agent[1].status

-----------------------------------------------------------------------------
(* Properties of the two expansion actions, each called on its own.        *)

\* The pages of {4, 5, 6} that exist in a document of n pages.
ExistingHeaderPages(n) == SelectSeq(<<4, 5, 6>>, LAMBDA p : p <= n)

\* C11: for a PDF document with N >= 5 pages, the running-header action
\* renders exactly the pages p of {4, 5, 6} with p <= N, in ascending order;
\* for a non-PDF document or N < 5 it renders no page and changes no field.
C11_RendersExistingHeaderPages ==
    (probe.called /\ probe.action = "running_headers") =>
        IF document.is_pdf /\ document.page_count >= 5
        THEN probe.eff.render = ExistingHeaderPages(document.page_count)
        ELSE probe.eff.render = << >> /\ SameBib(record, probe.before)

\* matches[i] is the match of the field with the highest confidence, the
\* first of them on equal confidence.
IsBest(matches, i, field) ==
    /\ matches[i].field_name = field
    /\ \A j \in 1..Len(matches) :
          matches[j].field_name = field =>
             \/ matches[j].confidence < matches[i].confidence
             \/ matches[j].confidence = matches[i].confidence /\ j >= i

\* Field f of the record is as it was, or it was empty and now holds the
\* value of the best match of `key`.
KeptOrBest(f, key) ==
    \/ record[f] = probe.before[f]
    \/ /\ ~Truthy(probe.before[f])
       /\ ~probe.rule.raises
       /\ \E i \in 1..Len(probe.rule.matches) :
             /\ IsBest(probe.rule.matches, i, key)
             /\ record[f] = probe.rule.matches[i].value

\* C12: no action overwrites a non-empty field.  The running-header action
\* sets at most page and volume, each only when empty and from the best match
\* for it (the first on a tie); the publication-info action sets at most
\* publisher_place (best place match) and publisher (language-model result),
\* each only when empty; every other bibliographic field is unchanged.
C12_ActionsOnlyFillEmptyFields ==
    probe.called =>
        /\ probe.action = "running_headers" =>
              /\ \A f \in BibFields \ {"page", "volume"} :
                    record[f] = probe.before[f]
              /\ KeptOrBest("page", "pages")
              /\ KeptOrBest("volume", "volume")
        /\ probe.action = "publication_info" =>
              /\ \A f \in BibFields \ {"publisher", "publisher_place"} :
                    record[f] = probe.before[f]
              /\ KeptOrBest("publisher_place", "place")
              /\ \/ record.publisher = probe.before.publisher
                 \/ /\ ~Truthy(probe.before.publisher)
                    /\ ~probe.llm.raises
                    /\ Truthy(probe.llm.publisher)
                    /\ record.publisher = probe.llm.publisher

\* The running-header action met two page matches of equal, highest
\* confidence on a record that had its volume but no page.
C12_Witness ==
    /\ probe.called
    /\ probe.action = "running_headers"
    /\ probe.before.page = None
    /\ probe.before.volume = "7"
    /\ \E i, j \in 1..Len(probe.rule.matches) :
          /\ i < j
          /\ IsBest(probe.rule.matches, i, "pages")
          /\ probe.rule.matches[j].field_name = "pages"
          /\ probe.rule.matches[j].confidence = probe.rule.matches[i].confidence
          /\ record.page = probe.rule.matches[i].value
    /\ BestMatch(probe.rule.matches, "volume") # 0
    /\ record.volume = "7"

\* The pages of a scan that yielded text, in scan order.
Yielding(outcome) ==
    SelectSeq([i \in 1..Len(outcome) |-> i], LAMBDA i : outcome[i] = "text")

\* The texts of those pages, joined by newlines.
YieldedText(pages, outcome) ==
    JoinLines([k \in 1..Len(Yielding(outcome)) |->
                  PageText(pages[Yielding(outcome)[k]])])

\* C13: in an action that scans pages, a page whose rendering or OCR fails is
\* skipped and the other pages are still scanned, in order; the extractors
\* get the concatenation of the texts of exactly the pages that yielded
\* text; when no page yields text the action changes no field, calls neither
\* the pattern matcher nor the language model, and has set its tried flag.
C13_PageFailuresAreSkipped ==
    (probe.called /\ Len(probe.outcome) > 0 /\ document.is_pdf
       /\ (probe.action = "running_headers" => document.page_count >= 5)) =>
        LET pages == probe.eff.render
            text == YieldedText(pages, probe.outcome)
        IN  /\ Len(pages) = Len(probe.outcome)
            /\ \A i, j \in 1..Len(pages) :
                  i < j => IF probe.action = "running_headers"
                           THEN pages[i] < pages[j] ELSE pages[i] > pages[j]
            /\ probe.eff.ocr = Cardinality({i \in 1..Len(pages) :
                                   probe.outcome[i] # "render_raises"})
            /\ IF Yielding(probe.outcome) = << >>
               THEN /\ SameBib(record, probe.before)
                    /\ probe.eff.rule = << >>
                    /\ probe.eff.llm = << >>
                    /\ ~probe.eff.raised
                    /\ IF probe.action = "running_headers"
                       THEN tried_running_headers ELSE tried_last_pages
               ELSE /\ probe.eff.rule = << text >>
                    /\ probe.eff.llm \in {<< >>, << text >>}
                    /\ (probe.action = "publication_info" /\ ~probe.rule.raises)
                          => probe.eff.llm = << text >>

\* The rendering of page 4 and the OCR of page 5 failed, page 6 gave the
\* header from which the record got its page.
C13_Witness ==
    /\ probe.called
    /\ probe.action = "running_headers"
    /\ probe.outcome = << "render_raises", "ocr_raises", "text" >>
    /\ probe.eff.render = << 4, 5, 6 >>
    /\ probe.eff.rule = << PageText(6) >>
    /\ probe.before.page = None
    /\ record.page = "123-145"

-----------------------------------------------------------------------------
(* Properties of the pattern matcher.                                      *)

\* C20: every PatternMatch extract() emits for a text has
\* 0 <= start <= end <= len(text) and a confidence in [0, 1]; the confidence
\* of a year match is in [0.3, 1.0] whatever pattern, boost and penalty apply.
C20_MatchesWithinBounds ==
    (probe.called /\ ppc = "extract") =>
        \A k \in 1..Len(probe.matches) :
           LET m == probe.matches[k]
           IN  /\ 0 <= m.start
               /\ m.start <= m.end
               /\ m.end <= Len(TextOf(probe.phrases))
               /\ 0 <= m.confidence
               /\ m.confidence <= 100
               /\ m.field_name = "year" =>
                     (30 <= m.confidence /\ m.confidence <= 100)

\* A copyright year (override 0.95) with the boost and the penalty, after
\* another phrase, next to a match of another field.
C20_Witness ==
    /\ probe.called
    /\ ppc = "extract"
    /\ \E k \in 1..Len(probe.matches) :
          /\ probe.matches[k].pattern_name = "year_copyright"
          /\ probe.matches[k].confidence = 70
          /\ probe.matches[k].start > 0
          /\ probe.matches[k].end < Len(TextOf(probe.phrases))
    /\ \E k \in 1..Len(probe.matches) : probe.matches[k].field_name = "volume"

-----------------------------------------------------------------------------
(* Properties of the Merger.                                               *)

\* The number of matches on the pages before page p.
RECURSIVE MatchesBefore(_, _)
MatchesBefore(rule_results, p) ==
    IF p = 1 THEN 0
    ELSE MatchesBefore(rule_results, p - 1) + Len(rule_results[p - 1].matches)

\* C14: merge returns exactly one Evidence per PatternMatch: the number of
\* evidences is the sum of the match counts of the per-page results (the
\* matches that lost the priority contest included), and the evidence is in
\* page order and, within a page, in match order.
C14_EvidencePreserved ==
    (probe.called /\ ppc = "merge") =>
        LET rr == probe.rule_results
        IN  /\ Len(probe.evidence) = MatchesBefore(rr, Len(rr) + 1)
            /\ \A p \in 1..Len(rr) :
                  \A i \in 1..Len(rr[p].matches) :
                     LET ev == probe.evidence[MatchesBefore(rr, p) + i]
                         m == rr[p].matches[i]
                     IN  /\ ev.field_name = m.field_name
                         /\ ev.value = m.value
                         /\ ev.confidence = m.confidence
                         /\ ev.page_number = p

\* Two pages with year matches of different confidence, and a language
\* model that has a volume of its own: the evidence keeps every match.
C14_Witness ==
    /\ probe.called
    /\ ppc = "merge"
    /\ Len(probe.rule_results) = 2
    /\ Len(probe.evidence) >= 4
    /\ \E i, j \in 1..Len(probe.evidence) :
          /\ probe.evidence[i].field_name = "year"
          /\ probe.evidence[j].field_name = "year"
          /\ probe.evidence[i].page_number < probe.evidence[j].page_number
          /\ probe.evidence[i].confidence < probe.evidence[j].confidence
    /\ \E i \in 1..Len(probe.evidence) :
          /\ probe.evidence[i].field_name = "volume"
          /\ probe.evidence[i].value # probe.data.volume

\* The matches of all pages, in page order and match order.
RECURSIVE FlatMatches(_)
FlatMatches(rule_results) ==
    IF rule_results = << >> THEN << >>
    ELSE Head(rule_results).matches \o FlatMatches(Tail(rule_results))

\* Every page result was produced by the pattern matcher.
FromPatternMatcher ==
    \A k \in 1..Len(FlatMatches(probe.rule_results)) :
       FlatMatches(probe.rule_results)[k].pattern_name # None

\* matches[i] is the best match among the fields `names`: highest
\* confidence, the first on equal confidence.
IsBestIn(matches, i, names) ==
    /\ matches[i].field_name \in names
    /\ \A j \in 1..Len(matches) :
          matches[j].field_name \in names =>
             \/ matches[j].confidence < matches[i].confidence
             \/ matches[j].confidence = matches[i].confidence /\ j >= i

HasMatch(names) ==
    \E k \in 1..Len(FlatMatches(probe.rule_results)) :
       FlatMatches(probe.rule_results)[k].field_name \in names

\* The value of the best match among the fields `names`.
BestValue(names) ==
    LET flat == FlatMatches(probe.rule_results)
    IN  flat[CHOOSE i \in 1..Len(flat) : IsBestIn(flat, i, names)].value

\* C15: for year, volume, issue and page, when the pattern matcher found a
\* match for the field on some page, the merged mapping holds the value of
\* the best pattern match under the key of the record (issued, volume,
\* issue, page), whatever the language model says; the value of the language
\* model is used only when there is no pattern match for the field.
C15_StructuralFieldsPreferPatterns ==
    (probe.called /\ ppc = "merge" /\ FromPatternMatcher) =>
        /\ \A f \in {"volume", "issue"} :
              probe.data[f] = IF HasMatch({f}) THEN BestValue({f})
                              ELSE llm_data_get(probe.llm, f)
        /\ probe.data.page = IF HasMatch({"pages"}) THEN BestValue({"pages"})
                             ELSE llm_data_get(probe.llm, "page")
        /\ probe.data.issued =
              IF HasMatch({"year"}) THEN DateParts(int(BestValue({"year"})))
              ELSE IF probe.llm.year # 0 THEN DateParts(probe.llm.year)
              ELSE NoIssued

\* C16: for doi, issn and isbn, when the pattern matcher found a match for
\* the identifier on some page (DOI, ISSN, ISBN-13 or ISBN-10 pattern), the
\* merged mapping holds the best such value under the key doi, issn or isbn;
\* an identifier that only the language model supplies is not in the mapping.
C16_IdentifiersFromPatterns ==
    (probe.called /\ ppc = "merge" /\ FromPatternMatcher) =>
        /\ \A f \in {"doi", "issn"} :
              probe.data[f] = IF HasMatch({f}) THEN BestValue({f}) ELSE None
        /\ probe.data.isbn =
              IF HasMatch({"isbn13", "isbn10"})
              THEN BestValue({"isbn13", "isbn10"}) ELSE None


\* Source `source` has a non-empty value for field f.
HasValue(source, f) ==
    IF source = "rule"
    THEN \E k \in 1..Len(FlatMatches(probe.rule_results)) :
            /\ FlatMatches(probe.rule_results)[k].field_name = f
            /\ FlatMatches(probe.rule_results)[k].value # ""
    ELSE f \in LlmStringFields /\ probe.llm[f] # None /\ probe.llm[f] # ""

ValueOf(source, f) == IF source = "rule" THEN BestValue({f}) ELSE probe.llm[f]

\* The value of the first source of the priority list that has a non-empty
\* value for f; None when no source has one.
Walk(priority, f) ==
    IF \E i \in 1..Len(priority) : HasValue(priority[i], f)
    THEN ValueOf(priority[CHOOSE i \in 1..Len(priority) :
                             /\ HasValue(priority[i], f)
                             /\ \A j \in 1..(i - 1) : ~HasValue(priority[j], f)],
                 f)
    ELSE None

C18_YearOnlyAsIssued ==
    (probe.called /\ ppc = "merge") =>
        LET resolved == Step3(probe.evidence, probe.llm).year
        IN  /\ probe.data.year = NoYear
            /\ probe.data.issued =
                  CASE resolved.kind = "int" -> DateParts(resolved.int)
                    [] resolved.kind = "str" /\ resolved.str \in IntStrings ->
                          DateParts(int(resolved.str))
                    [] OTHER -> NoIssued

\* The best year evidence is "n.d.", ahead of a year of digits on the other
\* page and of the language model's year: no year and no issued.
C18_Witness ==
    /\ probe.called
    /\ ppc = "merge"
    /\ Step3(probe.evidence, probe.llm).year = StrYear("n.d.")
    /\ \E i \in 1..Len(probe.evidence) :
          /\ probe.evidence[i].field_name = "year"
          /\ probe.evidence[i].value = "2020"
    /\ probe.llm.year = 2018
    /\ probe.data.year = NoYear
    /\ probe.data.issued = NoIssued


\* The pattern evidence decides field f: rule is the first source of its
\* priority list, or the language model, asked first, has no value for it.
RuleDecides(f) ==
    /\ \E i \in 1..Len(probe.evidence) : probe.evidence[i].field_name = f
    /\ \/ Head(field_priority(f)) = "rule"
       \/ "rule" \in {field_priority(f)[k] : k \in 1..Len(field_priority(f))}
          /\ ~HasValue("llm", f)

\* The pages of the Merger's test, in either order.
TestPages ==
    LET page1 == << Made("year", "2020", 90), Made("volume", "IX", 80) >>
        page2 == << Made("year", "2021", 70),
                    Made("doi", "10.1234/rule.doi", 95) >>
        Unstamped(matches) ==
            [k \in 1..Len(matches) |-> [matches[k] EXCEPT !.page_number = 0]]
    IN  /\ Len(probe.rule_results) = 2
        /\ {Unstamped(probe.rule_results[p].matches) : p \in 1..2}
              = {page1, page2}

\* C19: the best rule evidence of a field is the evidence of highest
\* confidence among the field's matches on all pages, the first in page
\* order then match order when several have that confidence: wherever the
\* pattern evidence decides a field, the mapping holds the value of that
\* evidence.  Two year matches of confidence 0.9 and 0.7 on different pages
\* and a language model without a year give the 0.9 year in issued,
\* whichever page it is on.
C19_BestEvidenceIsFirstMaximum ==
    (probe.called /\ ppc = "merge") =>
        /\ \A f \in MergedStringFields :
              RuleDecides(f) =>
                 \E i \in 1..Len(probe.evidence) :
                    /\ IsBestIn(probe.evidence, i, {f})
                    /\ probe.data[f] = probe.evidence[i].value
        /\ RuleDecides("year") =>
              \E i \in 1..Len(probe.evidence) :
                 /\ IsBestIn(probe.evidence, i, {"year"})
                 /\ probe.evidence[i].value \in IntStrings =>
                       probe.data.issued = DateParts(int(probe.evidence[i].value))
                 /\ probe.evidence[i].value \notin IntStrings =>
                       probe.data.issued = NoIssued
        /\ (TestPages /\ probe.llm.year = 0) =>
              probe.data.issued = DateParts(2020)

\* Year matches of the same, highest confidence on two pages, with different
\* values: issued holds the year of the first page.
C19_Witness ==
    /\ probe.called
    /\ ppc = "merge"
    /\ \E i, j \in 1..Len(probe.evidence) :
          /\ IsBestIn(probe.evidence, i, {"year"})
          /\ probe.evidence[j].field_name = "year"
          /\ probe.evidence[j].confidence = probe.evidence[i].confidence
          /\ probe.evidence[j].page_number > probe.evidence[i].page_number
          /\ probe.evidence[j].value # probe.evidence[i].value
          /\ probe.evidence[j].value \in IntStrings
          /\ probe.data.issued = DateParts(int(probe.evidence[i].value))


\* The places in the matches list of the matches of the fields `names` whose
\* confidence is at or above the threshold.
QualifyingPlaces(names) ==
    {i \in 1..Len(probe.matches) :
        /\ probe.matches[i].field_name \in names
        /\ probe.matches[i].confidence >= probe.min_confidence}

\* Place i holds the highest confidence of the places Q, and is the first
\* of Q to hold it.
FirstHighest(i, Q) ==
    /\ i \in Q
    /\ \A j \in Q :
          \/ probe.matches[j].confidence < probe.matches[i].confidence
          \/ probe.matches[j].confidence = probe.matches[i].confidence /\ j >= i

C22_Isbn13BeforeIsbn10 ==
    (probe.called /\ ppc = "extract") =>
        IF QualifyingPlaces({"isbn13"}) # {}
        THEN \E i \in QualifyingPlaces({"isbn13"}) :
                /\ FirstHighest(i, QualifyingPlaces({"isbn13"}))
                /\ probe.result.isbn = probe.matches[i].value
        ELSE IF QualifyingPlaces({"isbn10"}) # {}
        THEN \E i \in QualifyingPlaces({"isbn10"}) :
                /\ FirstHighest(i, QualifyingPlaces({"isbn10"}))
                /\ probe.result.isbn = probe.matches[i].value
        ELSE probe.result.isbn = None

\* An ISBN-10 in the text before an ISBN-13: the result holds the ISBN-13.
C22_Witness ==
    /\ probe.called
    /\ ppc = "extract"
    /\ probe.phrases = << "ISBN 0-306-40615-2", "ISBN 978-3-16-148410-0" >>
    /\ probe.result.isbn = "978-3-16-148410-0"
    /\ \E i \in QualifyingPlaces({"isbn10"}) :
          probe.matches[i].value = "0-306-40615-2"

\* The confidence of a year match of pattern pattern_name, with or without
\* a marker and a page or volume word around it, for a boost of `boost`
\* hundredths.
StatedYearConfidence(boost, pattern_name, marker, near) ==
    LET base == CASE pattern_name = "year_copyright" -> 95
                  [] pattern_name = "year_parentheses" -> 90
                  [] OTHER -> 80
        marked == IF marker THEN Min(100, base + boost) ELSE base
    IN  IF near THEN Max(30, marked - 30) ELSE marked

\* Some word of `words` lies in the 20 characters before and after match m.
Around(m, words) ==
    AnyWordIn(words, probe.phrases, Max(0, m.start - 20),
              Min(Len(TextOf(probe.phrases)), m.end + 20))

\* Every year match has the stated confidence for this boost and these
\* page and volume words, and "Published in 2023" gives the year 2023 with a
\* confidence of 0.8 or more.
YearConfidencesAre(boost, near_words) ==
    (probe.called /\ ppc = "extract") =>
        /\ \A k \in 1..Len(probe.matches) :
              LET m == probe.matches[k]
              IN  m.field_name = "year" =>
                     m.confidence =
                        StatedYearConfidence(boost, m.pattern_name,
                           Around(m, {"published", "copyright", "©", "année"}),
                           Around(m, near_words))
        /\ (probe.phrases = << "Published in 2023" >>
               /\ probe.min_confidence = DefaultMinConfidence) =>
              /\ probe.result.year = 2023
              /\ \E k \in 1..Len(probe.matches) :
                    /\ probe.matches[k].field_name = "year"
                    /\ probe.matches[k].value = "2023"
                    /\ probe.matches[k].confidence >= 80

\* C23 (as stated): the confidence of a year match is 0.8, or 0.95 for the
\* copyright pattern and 0.9 for the parenthesised one; plus 0.15, capped at
\* 1.0, with a marker such as "published", "copyright" or "©" in the context;
\* minus 0.3, floored at 0.3, with "p.", "pp." or "vol" near; "Published in
\* 2023" yields the year 2023 with a confidence of at least 0.8.
C23_YearConfidenceAsStated == YearConfidencesAre(15, {"p.", "pp.", "vol"})

\* C23 (amended): the same with plus 0.1 for a marker, and minus 0.3 also
\* when the word "page" is near; context and nearness are the 20 characters
\* before and after the match.
C23_YearConfidence == YearConfidencesAre(10, {"p.", "pp.", "page", "vol"})

\* A plain year next to "published" and to "page": 0.8 + 0.1 - 0.3.
C23_Witness ==
    /\ probe.called
    /\ ppc = "extract"
    /\ probe.phrases = << "published", "2020", "page 12" >>
    /\ probe.matches[1].field_name = "year"
    /\ probe.matches[1].confidence = 60
    /\ probe.result.year = 2020


-----------------------------------------------------------------------------
(* Properties of the ConfidenceScorer.                                     *)

\* The threshold a caller asked for, or the default when none was given.
AskedThreshold(threshold, default) ==
    IF threshold.given THEN threshold.value ELSE default

\* C24: score() gives the status confirmed iff the overall score is at or
\* above the confirmed threshold, needs_review iff it is at or above the
\* needs_review threshold and below the confirmed one, failed otherwise;
\* the thresholds are 0.75 and 0.40 when the caller gives none, and any
\* threshold the caller gives is the one used.
C24_StatusFromThresholds ==
    (probe.called /\ ppc = "score") =>
        LET confirmed_threshold == AskedThreshold(probe.confirmed_threshold, 750000)
            needs_review_threshold ==
                AskedThreshold(probe.needs_review_threshold, 400000)
            overall == probe.result.overall_score
        IN  /\ probe.result.status = "confirmed" <=> overall >= confirmed_threshold
            /\ probe.result.status = "needs_review" <=>
                  (needs_review_threshold <= overall /\ overall < confirmed_threshold)
            /\ probe.result.status = "failed" <=> overall < needs_review_threshold

\* The required fields of the scorer, and values that make them present.
RequiredValues ==
    [title |-> {"Abc", "A Long Enough Title"},
     authors |-> {<< Author("Smith", "John") >>, << Author(None, "John") >>},
     year |-> {DateParts(2023), DateParts(1234)}]

\* C25: with the other fields as they are, making an absent required field
\* (title, authors, year) present never lowers the overall score, the
\* adjustment for the document type and its clamping to [0, 1] included.
C25_MonotonicInRequiredFields ==
    (probe.called /\ ppc = "score") =>
        \A f \in DOMAIN RequiredValues :
           ~_is_field_present(f, probe.d[f]) =>
              \A value \in RequiredValues[f] :
                 score(ConfidenceScorer(probe.confirmed_threshold,
                                        probe.needs_review_threshold),
                       [probe.d EXCEPT ![f] = value]).overall_score
                    >= probe.result.overall_score

\* An article without container title, title and year, whose score is
\* floored at 0: with a short title it is above 0, with an author without a
\* family name it stays 0.
C25_Witness ==
    /\ probe.called
    /\ ppc = "score"
    /\ probe.d.title = None
    /\ probe.d.authors = << >>
    /\ probe.d.document_type = "article"
    /\ probe.d.container_title = None
    /\ probe.result.overall_score = 0
    /\ score(ConfidenceScorer(NoThreshold, NoThreshold),
             [probe.d EXCEPT !.title = "Abc"]).overall_score > 0
    /\ score(ConfidenceScorer(NoThreshold, NoThreshold),
             [probe.d EXCEPT !.authors = << Author(None, "John") >>]).overall_score
          = 0


-----------------------------------------------------------------------------
(* Properties of BibliographyRecord.determine_status.                      *)

\* 0.6 x req/3 + 0.25 x st/4 + 0.15 x pub/2, in 1/120000.
StatedScore(r) ==
    4 * 6000 * Count(r, {"title", "author", "issued"})
    + 3 * 2500 * Count(r, {"container_title", "volume", "issue", "page"})
    + 6 * 1500 * Count(r, {"publisher", "publisher_place"})

\* The record holds title, author and issued and nothing else.
OnlyRequired(r) ==
    \A f \in CountedFields : Present(r, f) <=> f \in {"title", "author", "issued"}

\* C26: determine_status sets the confidence to 0.6 x (present of title,
\* author, issued)/3 + 0.25 x (present of container_title, volume, issue,
\* page)/4 + 0.15 x (present of publisher, publisher_place)/2 rounded to two
\* decimals (a hundredth nearest to it), and the status to confirmed iff
\* the confidence is >= 0.8, needs_review iff it is >= 0.4 and < 0.8,
\* failed otherwise.  A record with title, author and issued 2023 and
\* neither container title nor volume has confidence >= 0.6, and status
\* needs_review when it holds nothing else; an empty record is failed.
C26_SimpleConfidenceAndStatus ==
    (ppc = "status" /\ probe.called) =>
        LET before == hist.first
            confidence == record.confidence
        IN  /\ confidence * 1200 - StatedScore(before) \in -600..600
            /\ record.status = "confirmed" <=> confidence >= 80
            /\ record.status = "needs_review" <=> (40 <= confidence /\ confidence < 80)
            /\ record.status = "failed" <=> confidence < 40
            /\ ( /\ Present(before, "title") /\ Present(before, "author")
                 /\ before.issued = DateParts(2023)
                 /\ ~Present(before, "container_title")
                 /\ ~Present(before, "volume") ) => confidence >= 60
            /\ OnlyRequired(before) =>
                  (confidence = 60 /\ record.status = "needs_review")
            /\ Count(before, CountedFields) = 0 =>
                  (confidence = 0 /\ record.status = "failed")

\* determine_status has run on a record that was confirmed and holds
\* title, author and issued 2023 only: it is now needs_review at 0.6.
C26_Witness ==
    /\ ppc = "status"
    /\ probe.called
    /\ OnlyRequired(hist.first)
    /\ hist.first.status = "confirmed"
    /\ record.confidence = 60
    /\ record.status = "needs_review"


-----------------------------------------------------------------------------
(* The choice of the action in a loop iteration of ExpansionAgent.run().   *)
(* hist.last holds the record and the flags the last loop body started     *)
(* with, the action it executed ("complete": none, the record was          *)
(* complete; "none": none, no rule applied) and the texts it handed to the *)
(* pattern matcher and the language model.                                 *)

\* The conditions of rule 1 and of rule 2 of _choose_and_execute_action, as
\* the last loop body found them.
RunningHeadersEligible ==
    /\ hist.last.before.type = "article-journal"
    /\ ~(Truthy(hist.last.before.page) /\ Truthy(hist.last.before.volume))
    /\ ~hist.last.tried_rh

PublicationInfoEligible ==
    /\ ~(Truthy(hist.last.before.publisher)
         /\ Truthy(hist.last.before.publisher_place))
    /\ ~hist.last.tried_lp

\* A loop body of the current run() call has been executed, and run() has
\* not yet left the loop for its final status determination.
AfterLoopBody == pc \in {"loop", "final", "raised"} /\ hist.run_bodies >= 1

RunningHeadersRan == hist.last.chosen = "running_headers"

PublicationInfoRan == hist.last.chosen = "publication_info"

\* C27: in every loop iteration of run() at most one action is executed.
\* The running-header action is executed whenever the record is an
\* article-journal, page and volume are not both present and that action is
\* untried; the publication-info action is executed only when the
\* running-header action is not eligible, publisher and publisher_place are
\* not both present and it is untried (and then it is, the record being
\* incomplete); no action is executed when the record is complete.  Only
\* the action executed sets its flag and fields or calls the pattern
\* matcher and the language model.
C27_OneActionByPriority ==
    AfterLoopBody =>
        /\ ~(RunningHeadersRan /\ PublicationInfoRan)
        /\ RunningHeadersEligible => RunningHeadersRan
        /\ RunningHeadersRan => RunningHeadersEligible
        /\ PublicationInfoRan =>
              (~RunningHeadersEligible /\ PublicationInfoEligible)
        /\ (~_is_complete(hist.last.before) /\ ~RunningHeadersEligible
                /\ PublicationInfoEligible) => PublicationInfoRan
        /\ _is_complete(hist.last.before) =>
              (~RunningHeadersRan /\ ~PublicationInfoRan)
        /\ ~RunningHeadersRan =>
              /\ tried_running_headers = hist.last.tried_rh
              /\ record.page = hist.last.before.page
              /\ record.volume = hist.last.before.volume
        /\ ~PublicationInfoRan =>
              /\ tried_last_pages = hist.last.tried_lp
              /\ record.publisher = hist.last.before.publisher
              /\ record.publisher_place = hist.last.before.publisher_place
              /\ hist.last.llm_text = << >>
        /\ (~RunningHeadersRan /\ ~PublicationInfoRan) =>
              (record = hist.last.before /\ hist.last.rule_text = << >>)
        /\ RunningHeadersRan => tried_running_headers
        /\ PublicationInfoRan => tried_last_pages
        /\ hist.execs_rh + hist.execs_pi <= hist.bodies

\* A loop body met an article-journal record lacking its volume and its
\* publisher, with neither action tried: the running-header action ran and
\* filled the volume, the publication-info action did not run.
C27_Witness ==
    /\ hist.last.chosen = "running_headers"
    /\ hist.last.before.type = "article-journal"
    /\ ~Present(hist.last.before, "volume")
    /\ ~Present(hist.last.before, "publisher")
    /\ ~hist.last.tried_rh /\ ~hist.last.tried_lp
    /\ Present(record, "volume")
    /\ tried_running_headers /\ ~tried_last_pages
    /\ hist.execs_pi = 0
    /\ calls.llm = 0


-----------------------------------------------------------------------------
(* Properties of WebSearchEnricher.enrich.                                 *)

\* The fields enrich can set.
EnrichedFields == {"issued", "container_title", "volume", "page"}

\* The record has a value for the field (for issued: a year).
Populated(r, f) ==
    IF f = "issued" THEN r.issued.present /\ r.issued.year # 0 ELSE Truthy(r[f])

\* C28: enrich changes nothing but issued, container_title, volume and
\* page, and each of these only when the record had no value for it (for
\* issued: no year), to the value the publication found has for it; title,
\* author and every populated field stay as they were.  For a record
\* without title no search is made and the record is unchanged.  When the
\* search fails the call still returns, with the record unchanged.
C28_EnrichOnlyFillsEmpty ==
    (ppc = "enrich" /\ probe.called) =>
        LET before == hist.first
        IN  /\ pc = "idle"
            /\ \A f \in DOMAIN record :
                  (f \notin EnrichedFields \/ Populated(before, f)) =>
                     record[f] = before[f]
            /\ record.container_title # before.container_title =>
                  (probe.web = "pub" /\ record.container_title = probe.bib.venue)
            /\ record.volume # before.volume =>
                  (probe.web = "pub" /\ record.volume = probe.bib.volume)
            /\ record.page # before.page =>
                  (probe.web = "pub" /\ record.page = probe.bib.pages)
            /\ record.issued # before.issued =>
                  /\ probe.web = "pub"
                  /\ probe.bib.pub_year \in IntStrings
                  /\ record.issued = DateParts(int(probe.bib.pub_year))
            /\ ~Truthy(before.title) =>
                  (record = before /\ calls.search = 0 /\ probe.web = "none")
            /\ Truthy(before.title) => calls.search = 1
            /\ probe.web = "raises" => (probe.caught /\ record = before)

\* The search found a publication with year, venue, volume and pages for a
\* record that had a volume and a date without a year: enrich took the
\* year, the venue and the pages and kept the volume, title and author.
C28_Witness ==
    /\ ppc = "enrich"
    /\ probe.called
    /\ probe.bib = Bib("2021", "Web Journal", "12", "33-44")
    /\ hist.first.title = "x"
    /\ hist.first.volume = "x"
    /\ hist.first.container_title = ""
    /\ hist.first.page = None
    /\ hist.first.issued = DateParts(0)
    /\ record = [hist.first EXCEPT !.issued = DateParts(2021),
                                   !.container_title = "Web Journal",
                                   !.page = "33-44"]


-----------------------------------------------------------------------------
(* The iteration counter over several run() calls.                         *)

\* The number of loop bodies executed before the current run() call.
BodiesBeforeRun == hist.bodies - hist.run_bodies

\* C29: the iteration counter counts the loop bodies of all run() calls of
\* the agent and is never reset, so they are at most max_iterations in all.
\* A run() call that starts with the bound reached executes no loop body and
\* no action, whatever the record lacks and whichever action is untried:
\* no page is rendered, no collaborator called, no flag set, and when it has
\* returned the record is the one it was given with status and confidence
\* recomputed.
C29_CounterNeverReset ==
    /\ iteration = hist.bodies
    /\ hist.bodies <= max_iterations
    /\ (hist.runs >= 1 /\ BodiesBeforeRun >= max_iterations) =>
          /\ hist.run_bodies = 0
          /\ hist.last.chosen = "start"
          /\ calls = hist.calls0
          /\ <<tried_running_headers, tried_last_pages>> = hist.tried0
          /\ pc \in {"loop", "idle"}
          /\ pc = "loop" => record = hist.rec0
          /\ Returned => record = determine_status(hist.rec0)

\* A second run() call has returned without a loop body, the first having
\* used up max_iterations = 1 with the running-header action: the record
\* is an incomplete article-journal without publisher, the publication-info
\* action is untried and the document has pages to scan for it.
C29_Witness ==
    /\ hist.runs = 2 /\ hist.returns = 2
    /\ max_iterations = 1 /\ iteration = 1
    /\ hist.run_bodies = 0
    /\ tried_running_headers /\ ~tried_last_pages
    /\ ~_is_complete(record)
    /\ ChooseAction(record, tried_running_headers, tried_last_pages)
          = "publication_info"
    /\ document.is_pdf /\ document.page_count = 10
    /\ calls.llm = 0


-----------------------------------------------------------------------------
(* Properties of the Zotero synchronization.                               *)

\* The local table of a kind holds every remote change of that kind made at
\* a version up to `version`: an object last written at such a version is
\* there with that version, an object deleted at such a version is not.
Applied(lib, db, kind, version) ==
    \A k \in DOMAIN lib[kind] :
       /\ (Existing(lib, kind)[k] # 0 /\ lib[kind][k] <= version) =>
             db[kind][k] = lib[kind][k]
       /\ (lib.deleted[kind][k] # 0 /\ lib.deleted[kind][k] <= version) =>
             db[kind][k] = 0

\* C30: whatever other clients do to the library between the steps of a
\* sync, when incremental_sync (or the full clone it makes) has returned,
\* every remote change with a version up to the stored last_version is in
\* the local database, so that the next incremental_sync, which asks for
\* the changes after that version, skips none; and incremental_sync makes a
\* full clone exactly when no last_version is stored.
C30_SyncLosesNoChange ==
    ppc = "zotero" =>
        /\ (probe.at = "idle" /\ probe.syncs >= 1) =>
              /\ probe.db.last_version # NoVersion
              /\ Applied(probe.lib, probe.db, "items", probe.db.last_version)
              /\ Applied(probe.lib, probe.db, "collections", probe.db.last_version)
        /\ probe.at \in {"clone_items", "clone_collections", "clone_version",
                          "clone_store"} <=>
              (probe.at # "idle" /\ probe.db.last_version = NoVersion)


====
